---- MODULE Spec2Model ----
(***************************************************************************)
(* X-Agent Gateway (XAG): the escrow / settlement engine.                   *)
(*                                                                         *)
(* The program is the modular SDK: XAG (public operations) delegating to   *)
(* EscrowManager, RLUSDManager and DIDManager.  The ledger (an XRPL        *)
(* network reached through the xrpl.js Client) is the environment: it is   *)
(* modelled by the variables balance, acctSeq, lines, iou, escrows, ledger *)
(* and now, and by the operators EngineResult / LedgerApply.               *)
(*                                                                         *)
(* Every public operation is an async function.  Each `await` of a ledger  *)
(* request is a point where another invocation may run, so an operation    *)
(* is a process that advances one request at a time (proc[p].pc).          *)
(*                                                                         *)
(* Not modelled: transaction fees and account reserves of the ledger,      *)
(* CancelAfter, memos on settlement transactions, network failures.        *)
(***************************************************************************)
EXTENDS Integers, Sequences, FiniteSets, TLC

(***************************************************************************)
(* Bounds of the model.                                                    *)
(***************************************************************************)
\* initiateTrade invocations begun in one behaviour
MaxTrades == 1
\* fulfillTrade invocations begun in one behaviour
MaxFulfills == 2
\* invocations in flight at the same time
MaxProcs == 2
\* last value of the ledger clock
MaxTime == 2

(***************************************************************************)
(* Strings are sequences of characters.                                    *)
(***************************************************************************)
DIDPrefix == <<"d", "i", "d", ":", "x", "r", "p", "l", ":", "1", ":">>

rB == <<"r", "B">>
rS == <<"r", "S">>
Addr == {rB, rS}
NoAddr == <<>>
\* SINK_ADDRESS, the destination of every broadcast
Sink == <<"r", "r">>

StartsWith(s, p) == Len(s) >= Len(p) /\ SubSeq(s, 1, Len(p)) = p

\* least index at which pat occurs in s, 0 when it does not occur
IndexOf(s, pat) ==
  LET hits == {i \in 1..(Len(s) - Len(pat) + 1) : SubSeq(s, i, i + Len(pat) - 1) = pat}
  IN  IF hits = {} THEN 0 ELSE CHOOSE i \in hits : \A j \in hits : i <= j

\* String.prototype.replace(pat, rep) with a string pattern: first occurrence only
ReplaceFirst(s, pat, rep) ==
  LET i == IndexOf(s, pat)
  IN  IF i = 0 THEN s
      ELSE SubSeq(s, 1, i - 1) \o rep \o SubSeq(s, i + Len(pat), Len(s))

\* DIDManager.resolveDID: [ok |-> FALSE] stands for the thrown 'Invalid DID format'
resolveDID(did) ==
  IF StartsWith(did, DIDPrefix)
    THEN [ok |-> TRUE, val |-> ReplaceFirst(did, DIDPrefix, <<>>)]
  ELSE IF StartsWith(did, <<"r">>)
    THEN [ok |-> TRUE, val |-> did]
  ELSE [ok |-> FALSE, val |-> NoAddr]

createDID_Bare(address) == address

\* DIDManager.createDID
createDID(address) == DIDPrefix \o address

BadId == <<"x", "B">>

(***************************************************************************)
(* Wallets.  A seed determines its account; a wallet is that account.      *)
(***************************************************************************)
NoSeed == "none"
Seeds == {"sB", "sS"}
\* Wallet.fromSeed(seed).address
fromSeed(seed) == IF seed = "sB" THEN rB ELSE rS

(***************************************************************************)
(* Amounts.                                                                *)
(***************************************************************************)
DropsPerXrp == 1000000
\* the 0.1 XRP the balance check adds to the amount
ReserveDrops == DropsPerXrp \div 10
\* xrpToDrops(amount.toString()) for a whole number of XRP
xrpToDrops(amount) == amount * DropsPerXrp

(***************************************************************************)
(* Transactions.  All have the same fields; 0, "" and NoAddr stand for an   *)
(* absent field (the code omits a field exactly when its value is falsy).  *)
(* A transaction's hash is determined by its signed content, so the model  *)
(* uses the signed transaction itself as its hash.                         *)
(***************************************************************************)
Tx(type, account, seq, currency, amount, dest, owner, offerSeq, finishAfter, condition, fulfillment) ==
  [type |-> type, account |-> account, seq |-> seq, currency |-> currency,
   amount |-> amount, dest |-> dest, owner |-> owner, offerSeq |-> offerSeq,
   finishAfter |-> finishAfter, condition |-> condition, fulfillment |-> fulfillment,
   memos |-> <<>>]

NoTx == Tx("none", NoAddr, 0, "", 0, NoAddr, NoAddr, 0, 0, "", "")
\* a hash that names no transaction of the ledger
UnknownHash == Tx("unknown", NoAddr, 0, "", 0, NoAddr, NoAddr, 0, 0, "", "")
\* a validated transaction that used a ticket: its Sequence field is 0
TicketedTx == Tx("AccountSet", rS, 0, "", 0, NoAddr, NoAddr, 0, 0, "", "")

VARIABLES
  balance,      \* ledger: XRP balance of each account, in drops
  acctSeq,      \* ledger: next sequence number of each account
  lines,        \* ledger: whether the account has a trust line to the RLUSD issuer
  iou,          \* ledger: RLUSD balance of each account
  escrows,      \* ledger: open escrow objects
  ledger,       \* ledger: validated transactions with their result, oldest first
  now,          \* ledger: close time
  agentWallets, \* XAG.agentWallets: DID -> wallet
  proc,         \* the invocations in flight
  last,         \* outcome of the invocation that completed last
  released,     \* creation hashes for which a native fulfillTrade returned a hash
  calls         \* invocations begun so far, by operation

ledgerVars == <<balance, acctSeq, lines, iou, escrows, ledger, now>>
vars == <<balance, acctSeq, lines, iou, escrows, ledger, now, agentWallets, proc, last,
          released, calls>>

Procs == 1..MaxProcs

(***************************************************************************)
(* The ledger.                                                             *)
(***************************************************************************)
Range(s) == {s[i] : i \in 1..Len(s)}

\* a preimage of the escrow's crypto-condition
Fulfills(fulfillment, condition) == fulfillment = "F" /\ condition = "C"

EscrowAt(owner, seq) == {e \in escrows : e.owner = owner /\ e.seq = seq}

\* open escrow objects of owner whose PreviousTxnID is hash
OpenEscrowOf(owner, hash) == {e \in escrows : e.owner = owner /\ e.prevTxn = hash}

\* preflight checks: a malformed transaction is never applied (tem codes)
Malformed(tx) ==
  CASE tx.type = "EscrowCreate" ->
         tx.amount <= 0 \/ (tx.finishAfter = 0 /\ tx.condition = "")
    [] tx.type = "EscrowFinish" ->
         (tx.fulfillment = "") # (tx.condition = "")
    [] tx.type = "Payment" ->
         tx.amount <= 0 \/ tx.account = tx.dest
    [] OTHER -> FALSE

\* the result code the ledger gives tx in the current state
EngineResult(tx) ==
  IF Malformed(tx) THEN "temMALFORMED"
  ELSE IF tx.seq # acctSeq[tx.account] THEN "tefPAST_SEQ"
  ELSE CASE tx.type = "EscrowCreate" ->
              IF tx.finishAfter # 0 /\ tx.finishAfter <= now THEN "tecNO_PERMISSION"
              ELSE IF balance[tx.account] < tx.amount THEN "tecUNFUNDED"
              ELSE "tesSUCCESS"
         [] tx.type = "EscrowFinish" ->
              IF EscrowAt(tx.owner, tx.offerSeq) = {} THEN "tecNO_TARGET"
              ELSE LET e == CHOOSE e \in EscrowAt(tx.owner, tx.offerSeq) : TRUE
                   IN  IF e.finishAfter # 0 /\ now <= e.finishAfter THEN "tecNO_PERMISSION"
                       ELSE IF e.condition # tx.condition THEN "tecCRYPTOCONDITION_ERROR"
                       ELSE IF e.condition # "" /\ ~Fulfills(tx.fulfillment, tx.condition)
                         THEN "tecCRYPTOCONDITION_ERROR"
                       ELSE "tesSUCCESS"
         [] tx.type = "TrustSet" -> "tesSUCCESS"
         [] tx.type = "DIDSet" -> "tesSUCCESS"
         [] tx.type = "Payment" /\ tx.currency = "XRP" ->
              IF balance[tx.account] < tx.amount THEN "tecUNFUNDED_PAYMENT"
              ELSE "tesSUCCESS"
         [] tx.type = "Payment" /\ tx.currency # "XRP" ->
              IF ~lines[tx.account] \/ ~lines[tx.dest] \/ iou[tx.account] < tx.amount
                THEN "tecPATH_DRY"
              ELSE "tesSUCCESS"
         [] OTHER -> "temMALFORMED"

\* tes and tec results are recorded in a validated ledger and consume the sequence
Included(res) == res \notin {"temMALFORMED", "tefPAST_SEQ"}

\* the validated ledger entries whose hash is hash (at most one)
Validated(hash) == {e \in Range(ledger) : e.tx = hash}

\* the effect of a transaction that a validated ledger includes with result res
LedgerApply(tx, res) ==
  LET ok == res = "tesSUCCESS"
      target == EscrowAt(tx.owner, tx.offerSeq)
  IN  /\ ledger' = Append(ledger, [tx |-> tx, result |-> res])
      /\ acctSeq' = [acctSeq EXCEPT ![tx.account] = @ + 1]
      /\ escrows' =
           IF ok /\ tx.type = "EscrowCreate"
             THEN escrows \cup {[owner |-> tx.account, seq |-> tx.seq, amount |-> tx.amount,
                                 dest |-> tx.dest, finishAfter |-> tx.finishAfter,
                                 condition |-> tx.condition, prevTxn |-> tx]}
           ELSE IF ok /\ tx.type = "EscrowFinish" THEN escrows \ target
           ELSE escrows
      /\ balance' =
           IF ok /\ tx.type = "EscrowCreate"
             THEN [balance EXCEPT ![tx.account] = @ - tx.amount]
           ELSE IF ok /\ tx.type = "EscrowFinish"
             THEN LET e == CHOOSE e \in target : TRUE
                  IN  [balance EXCEPT ![e.dest] = @ + e.amount]
           ELSE IF ok /\ tx.type = "Payment" /\ tx.currency = "XRP"
             THEN [balance EXCEPT ![tx.account] = @ - tx.amount]
           ELSE balance
      /\ lines' = IF ok /\ tx.type = "TrustSet" THEN [lines EXCEPT ![tx.account] = TRUE]
                  ELSE lines
      /\ iou' = IF ok /\ tx.type = "Payment" /\ tx.currency # "XRP"
                  THEN [a \in Addr |->
                          IF a = tx.account THEN iou[a] - tx.amount
                          ELSE IF a = tx.dest THEN iou[a] + tx.amount
                          ELSE iou[a]]
                ELSE iou
      /\ UNCHANGED now

(***************************************************************************)
(* Inputs of the public operations.                                        *)
(***************************************************************************)
BuyerIds == {createDID(rB), BadId}
SellerIds == {createDID(rS), BadId}
Amounts == {1, 2}
Tokens == {"XRP", "RLUSD"}
Conditions == {"", "C"}
FinishAfters == {0, 1}
\* the seeds given to fulfillTrade
SellerSeeds == {"sS"}

(***************************************************************************)
(* An invocation.  ok, err, ret and sequence are its outcome; the fields    *)
(* after them record what the invocation saw, for the properties below.    *)
(***************************************************************************)
IdleProc ==
  [pc |-> "idle", op |-> "none", token |-> "", buyer |-> NoAddr, seller |-> NoAddr,
   amount |-> 0, condition |-> "", finishAfter |-> 0, wallet |-> NoAddr,
   hash |-> NoTx, stage |-> "", tx |-> NoTx, subs |-> <<>>,
   ok |-> FALSE, err |-> "", ret |-> NoTx, sequence |-> 0,
   checked |-> FALSE, obs |-> 0, hadLine |-> FALSE, lineAtPay |-> FALSE,
   preReleased |-> FALSE, fetched |-> "", openAtFetch |-> FALSE,
   early |-> FALSE, releasable |-> FALSE, targetCondition |-> "", pastSeq |-> FALSE,
   args |-> <<>>, result |-> <<>>]

Throw(c, err) == [c EXCEPT !.pc = "done", !.ok = FALSE, !.err = err]
Return(c, ret, sequence) ==
  [c EXCEPT !.pc = "done", !.ok = TRUE, !.ret = ret, !.sequence = sequence]

\* what is kept of a completed invocation: its arguments, its outcome and what it saw
Outcome(c) ==
  [c EXCEPT !.stage = "", !.tx = NoTx, !.wallet = NoAddr, !.condition = "",
            !.finishAfter = 0]

\* the invocation of process p ends with outcome c
Complete(p, c) ==
  /\ proc' = [proc EXCEPT ![p] = IdleProc]
  /\ last' = Outcome(c)
  /\ released' = IF c.ok /\ c.op = "fulfillTrade" /\ c.token = "XRP"
                   THEN Append(released, c.hash)
                 ELSE released

\* the invocation of process p goes on as c
Continue(p, c) ==
  /\ proc' = [proc EXCEPT ![p] = c]
  /\ UNCHANGED <<last, released>>

Step(p, c) == IF c.pc = "done" THEN Complete(p, c) ELSE Continue(p, c)

\* a new invocation takes the first free slot (the slots are interchangeable)
FreeSlot(p) == proc[p].pc = "idle" /\ \A q \in Procs : q < p => proc[q].pc # "idle"

(***************************************************************************)
(* XAG.getWalletFromDID                                                    *)
(***************************************************************************)
getWalletFromDID(didOrAddress, seed) ==
  IF ~resolveDID(didOrAddress).ok THEN [ok |-> FALSE, err |-> "InvalidIdentifier", wallet |-> NoAddr]
  ELSE IF didOrAddress \in DOMAIN agentWallets
    THEN [ok |-> TRUE, err |-> "", wallet |-> agentWallets[didOrAddress]]
  ELSE IF seed # NoSeed
    THEN [ok |-> TRUE, err |-> "", wallet |-> fromSeed(seed)]
  ELSE [ok |-> FALSE, err |-> "WalletNotFound", wallet |-> NoAddr]

(***************************************************************************)
(* Decisions of the code.                                                  *)
(***************************************************************************)
InsufficientXRP_NoReserve(balanceDrops, amount) == balanceDrops < xrpToDrops(amount)

\* XAG.initiateTrade: balance < config.amount + 0.1, balance being drops / 1000000
InsufficientXRP(balanceDrops, amount) == balanceDrops < xrpToDrops(amount) + ReserveDrops

\* XAG.initiateTrade: parseFloat(balance) < config.amount
InsufficientRLUSD(rlusdBalance, amount) == rlusdBalance < amount

IsPaymentPath_Never(token) == FALSE

\* EscrowManager.initiateTrade: config.token === 'RLUSD'
IsPaymentPath(token) == token = "RLUSD"

MustCreateTrustLine_Never(hasTrustLine) == FALSE

\* RLUSDManager.createRLUSDPayment: if (!hasTrustLine)
MustCreateTrustLine(hasTrustLine) == ~hasTrustLine

PaymentNotSuccessful_Never(result) == FALSE

\* EscrowManager.fulfillTrade: txResult.meta?.TransactionResult !== 'tesSUCCESS'
PaymentNotSuccessful(result) == result # "tesSUCCESS"

LookupFailed_OwnerOnly(owner, sequence) == owner = NoAddr

\* EscrowManager.fulfillTrade: !owner || !sequence
LookupFailed(owner, sequence) == owner = NoAddr \/ sequence = 0

\* RLUSDManager.getBalance: the balance of the RLUSD line, '0' without one
getBalance(address) == IF lines[address] THEN iou[address] ELSE 0

\* RLUSDManager.hasTrustLine
hasTrustLine(address) == lines[address]

(***************************************************************************)
(* The transactions the code builds (Sequence is set by autofill).         *)
(***************************************************************************)
EscrowCreateTx(wallet, amount, sellerAddress, condition, finishAfter) ==
  Tx("EscrowCreate", wallet, 0, "XRP", xrpToDrops(amount), sellerAddress, NoAddr, 0,
     finishAfter, condition, "")

TrustSetTx(wallet) ==
  Tx("TrustSet", wallet, 0, "RLUSD", 0, NoAddr, NoAddr, 0, 0, "", "")

RLUSDPaymentTx(fromWallet, toAddress, amount) ==
  Tx("Payment", fromWallet, 0, "RLUSD", amount, toAddress, NoAddr, 0, 0, "", "")

EscrowFinishTx(wallet, owner, sequence, fulfillment, condition) ==
  Tx("EscrowFinish", wallet, 0, "", 0, NoAddr, owner, sequence, 0, condition, fulfillment)

\* DIDManager.registerDID: didTx.  A DIDSet holds its URI in the condition field and
\* its Data in the last field: the agents here share one name, so the URI is the same
\* and Data differs with config.type only.
AgentURI == "xag:agent:a"

DIDSetTx(wallet, type) ==
  Tx("DIDSet", wallet, 0, "", 0, NoAddr, NoAddr, 0, 0, AgentURI, type)

(***************************************************************************)
(* XAG.createAgent.  args.didHash is what registerDID returned (NoTx for   *)
(* ''), args.trustLine what became of the trust line.                      *)
(***************************************************************************)
AgentTypes == {"buyer", "seller"}

\* config.type === 'supplier' || config.type === 'seller'
NeedsTrustLine(type) == type \in {"supplier", "seller"}

\* createAgent after registerDID has returned didHash
AfterRegisterDID(c, didHash) ==
  [c EXCEPT !.args.didHash = didHash,
            !.pc = IF NeedsTrustLine(c.args.type) THEN "agentLines" ELSE "store"]

OnRegisterError_Throw(c) == Throw(c, "SettlementRejected")

\* DIDManager.registerDID: catch (error) { ...; return ''; }
OnRegisterError(c) == AfterRegisterDID(c, NoTx)

OnTrustLineError_Throw(c) == Throw(c, "SettlementRejected")

\* XAG.createAgent: catch (error) { console.warn(...) } around the trust line
OnTrustLineError(c) == [c EXCEPT !.pc = "store", !.args.trustLine = "failed"]

BeginCreateAgent(p) ==
  /\ FreeSlot(p)
  /\ \E seed \in Seeds, type \in AgentTypes :
       Continue(p, [IdleProc EXCEPT !.op = "createAgent", !.pc = "autofill", !.stage = "did",
                                   !.wallet = fromSeed(seed), !.tx = DIDSetTx(fromSeed(seed), type),
                                   !.args = [seed |-> seed, type |-> type, didHash |-> NoTx,
                                             trustLine |-> "none"]])
  /\ calls' = [calls EXCEPT !.createAgent = @ + 1]
  /\ UNCHANGED <<ledgerVars, agentWallets>>

\* XAG.createAgent: rlusdManager.hasTrustLine(wallet.address)
AgentLines(p) ==
  /\ proc[p].pc = "agentLines"
  /\ LET c == proc[p]
     IN  IF MustCreateTrustLine(hasTrustLine(c.wallet))
           THEN Continue(p, [c EXCEPT !.pc = "autofill", !.stage = "agentTrust",
                                      !.tx = TrustSetTx(c.wallet)])
         ELSE Continue(p, [c EXCEPT !.pc = "store", !.args.trustLine = "had"])
  /\ UNCHANGED <<ledgerVars, agentWallets, calls>>

\* XAG.createAgent: agentWallets.set(did, wallet) and the returned agent
StoreWallet(p) ==
  /\ proc[p].pc = "store"
  /\ LET c == proc[p]
         did == createDID(c.wallet)
     IN  /\ agentWallets' = [d \in DOMAIN agentWallets \cup {did} |->
                               IF d = did THEN c.wallet ELSE agentWallets[d]]
         /\ Complete(p, [c EXCEPT !.pc = "done", !.ok = TRUE,
                                  !.result = <<[address |-> c.wallet, seed |-> c.args.seed,
                                                did |-> did]>>])
  /\ UNCHANGED <<ledgerVars, calls>>

(***************************************************************************)
(* XAG.initiateTrade, up to its first ledger request.                      *)
(***************************************************************************)
BeginInitiateTrade(p) ==
  /\ FreeSlot(p)
  /\ calls.initiateTrade < MaxTrades
  /\ \E buyer \in BuyerIds, seller \in SellerIds, amount \in Amounts, token \in Tokens,
        condition \in Conditions, finishAfter \in FinishAfters, seed \in Seeds \cup {NoSeed} :
       \* the payment path reads neither condition nor finishAfter
       /\ IsPaymentPath(token) => condition = "" /\ finishAfter = 0
       /\ LET w == getWalletFromDID(buyer, seed)
              c == [IdleProc EXCEPT !.op = "initiateTrade", !.buyer = buyer]
          IN  IF ~w.ok THEN Complete(p, Throw(c, w.err))
              ELSE Continue(p, [c EXCEPT !.pc = "balance", !.token = token,
                                         !.seller = seller, !.amount = amount,
                                         !.condition = condition,
                                         !.finishAfter = finishAfter,
                                         !.wallet = w.wallet])
  /\ calls' = [calls EXCEPT !.initiateTrade = @ + 1]
  /\ UNCHANGED <<ledgerVars, agentWallets>>

(***************************************************************************)
(* EscrowManager.initiateTrade up to its first ledger request: both        *)
(* parties are resolved, then the escrow is built or the payment begun.    *)
(***************************************************************************)
EscrowManagerInitiate(c) ==
  LET buyerAddress == resolveDID(c.buyer)
      sellerAddress == resolveDID(c.seller)
  IN  IF ~buyerAddress.ok \/ ~sellerAddress.ok THEN Throw(c, "InvalidIdentifier")
      ELSE IF IsPaymentPath(c.token) THEN [c EXCEPT !.pc = "lines"]
      ELSE [c EXCEPT !.pc = "autofill", !.stage = "settle",
                     !.tx = EscrowCreateTx(c.wallet, c.amount, sellerAddress.val,
                                           c.condition, c.finishAfter)]

(***************************************************************************)
(* XAG.initiateTrade: the balance check (account_info or account_lines).   *)
(***************************************************************************)
CheckBalance(p) ==
  /\ proc[p].pc = "balance"
  /\ LET c == proc[p]
         buyerAddress == resolveDID(c.buyer).val
         obs == IF c.token = "XRP" THEN balance[buyerAddress] ELSE getBalance(buyerAddress)
         seen == [c EXCEPT !.checked = TRUE, !.obs = obs]
         short == IF c.token = "XRP" THEN InsufficientXRP(obs, c.amount)
                  ELSE InsufficientRLUSD(obs, c.amount)
     IN  IF short THEN Complete(p, Throw(seen, "InsufficientFunds"))
         ELSE Step(p, EscrowManagerInitiate(seen))
  /\ UNCHANGED <<ledgerVars, agentWallets, calls>>

(***************************************************************************)
(* RLUSDManager.createRLUSDPayment: the trust line check.                  *)
(***************************************************************************)
CheckTrustLine(p) ==
  /\ proc[p].pc = "lines"
  /\ LET c == proc[p]
         has == hasTrustLine(c.wallet)
     IN  IF MustCreateTrustLine(has)
           THEN Continue(p, [c EXCEPT !.pc = "autofill", !.stage = "trust", !.hadLine = has,
                                      !.tx = TrustSetTx(c.wallet)])
         ELSE Continue(p, [c EXCEPT !.pc = "autofill", !.stage = "settle", !.hadLine = has,
                                    !.tx = RLUSDPaymentTx(c.wallet, resolveDID(c.seller).val,
                                                          c.amount)])
  /\ UNCHANGED <<ledgerVars, agentWallets, calls>>

(***************************************************************************)
(* client.autofill: the account's next sequence number is filled in.       *)
(***************************************************************************)
Autofill(p) ==
  /\ proc[p].pc = "autofill"
  /\ LET c == proc[p]
     IN  Continue(p, [c EXCEPT !.pc = "submit", !.tx.seq = acctSeq[c.tx.account]])
  /\ UNCHANGED <<ledgerVars, agentWallets, calls>>

(***************************************************************************)
(* client.submitAndWait.  A malformed transaction is refused at once and   *)
(* the call throws.  A transaction whose sequence number is already used   *)
(* is not applied; the call then waits for the hash to appear in a         *)
(* validated ledger, which it does exactly when the identical signed       *)
(* transaction was validated before, and throws otherwise.  Any other      *)
(* transaction is validated with a tes or tec result and the call returns  *)
(* it: a tec result is a return value, not an exception.                   *)
(***************************************************************************)
\* what the invocation does with the value submitAndWait returned
ReturnedSequence_Next(token, tx) == IF IsPaymentPath(token) THEN 0 ELSE tx.seq + 1

\* EscrowManager.initiateTrade: the sequence of the TradeResult, tx being the
\* transaction that settled the trade: result.result.Sequence || prepared.Sequence on
\* the native path, 0 on the payment path
ReturnedSequence(token, tx) == IF IsPaymentPath(token) THEN 0 ELSE tx.seq

AfterSubmit(c) ==
  CASE c.stage = "did" -> AfterRegisterDID(c, c.tx)
    [] c.stage = "agentTrust" -> [c EXCEPT !.pc = "store", !.args.trustLine = "created"]
    [] c.stage = "trust" ->
         \* createTrustLine returns; createRLUSDPayment goes on to the payment
         [c EXCEPT !.pc = "autofill", !.stage = "settle",
                   !.tx = RLUSDPaymentTx(c.wallet, resolveDID(c.seller).val, c.amount)]
    [] c.stage = "settle" ->
         Return(c, c.tx, ReturnedSequence(c.token, c.tx))
    [] OTHER -> Return(c, c.tx, 0)

\* what the submission meets in the ledger, recorded for the properties
Observed(c) ==
  LET tx == c.tx
      target == EscrowAt(tx.owner, tx.offerSeq)
      e == CHOOSE e \in target : TRUE
  IN  [c EXCEPT !.subs = Append(@, tx),
                !.lineAtPay = IF tx.type = "Payment" THEN lines[tx.account] ELSE @,
                !.early = tx.type = "EscrowFinish" /\ target # {}
                          /\ e.finishAfter # 0 /\ now <= e.finishAfter,
                !.releasable = tx.type = "EscrowFinish" /\ target # {}
                               /\ (e.finishAfter = 0 \/ now > e.finishAfter)
                               /\ e.condition = "" /\ acctSeq[tx.account] = tx.seq,
                !.targetCondition = IF tx.type = "EscrowFinish" /\ target # {}
                                      THEN e.condition ELSE "",
                \* the sequence number autofill gave has been used since
                !.pastSeq = @ \/ tx.seq # acctSeq[tx.account]]

OnSubmitError_Retry(c) == [c EXCEPT !.pc = "autofill"]

\* submitAndWait throws: no write operation catches the error to submit again
OnSubmitError(c) == Throw(c, "SettlementRejected")

\* the handler, if any, around the submitAndWait that threw
SubmitFailed(c) ==
  CASE c.stage = "did" -> OnRegisterError(c)
    [] c.stage = "agentTrust" -> OnTrustLineError(c)
    [] OTHER -> OnSubmitError(c)

SubmitAndWait(p) ==
  /\ proc[p].pc = "submit"
  /\ LET c == Observed(proc[p])
         res == EngineResult(c.tx)
     IN  IF Included(res)
           THEN LedgerApply(c.tx, res) /\ Step(p, AfterSubmit(c))
         ELSE IF res = "tefPAST_SEQ" /\ Validated(c.tx) # {}
           THEN UNCHANGED ledgerVars /\ Step(p, AfterSubmit(c))
         ELSE UNCHANGED ledgerVars /\ Step(p, SubmitFailed(c))
  /\ UNCHANGED <<agentWallets, calls>>

(***************************************************************************)
(* XAG.fulfillTrade, up to the first ledger request.  The public operation *)
(* takes no fulfillment and no condition and passes none on.               *)
(***************************************************************************)
Hashes == {e.tx : e \in Range(ledger)} \cup {UnknownHash}

\* hash created an escrow that a later EscrowFinish has consumed
Consumed(hash) ==
  /\ \E e \in Validated(hash) : e.tx.type = "EscrowCreate" /\ e.result = "tesSUCCESS"
  /\ \E f \in Range(ledger) : /\ f.tx.type = "EscrowFinish" /\ f.result = "tesSUCCESS"
                              /\ f.tx.owner = hash.account /\ f.tx.offerSeq = hash.seq

BeginFulfillTrade(p) ==
  /\ FreeSlot(p)
  /\ calls.fulfillTrade < MaxFulfills
  /\ \E escrowHash \in Hashes, sellerDID \in SellerIds, token \in Tokens,
        sellerSeed \in SellerSeeds \cup {NoSeed} :
       LET w == getWalletFromDID(sellerDID, sellerSeed)
           c == [IdleProc EXCEPT !.op = "fulfillTrade", !.seller = sellerDID]
       IN  IF ~w.ok THEN Complete(p, Throw(c, w.err))
           ELSE Continue(p, [c EXCEPT !.pc = "fetch", !.token = token,
                                      !.hash = escrowHash, !.wallet = w.wallet,
                                      !.preReleased = Consumed(escrowHash)])
  /\ calls' = [calls EXCEPT !.fulfillTrade = @ + 1]
  /\ UNCHANGED <<ledgerVars, agentWallets>>

(***************************************************************************)
(* EscrowManager.fulfillTrade(escrowHash, sellerWallet, token, fulfillment,*)
(* condition): the `tx` request and what follows it up to the next request.*)
(***************************************************************************)
EscrowManagerFulfill(c, fulfillment, condition) ==
  LET found == Validated(c.hash)
      e == CHOOSE e \in found : TRUE
      owner == e.tx.account
      sequence == e.tx.seq
  IN  IF found = {} THEN Throw([c EXCEPT !.fetched = "notFound"], "TxnNotFound")
      ELSE LET seen == [c EXCEPT !.fetched = e.result,
                                 !.openAtFetch = OpenEscrowOf(owner, c.hash) # {}]
           IN  IF IsPaymentPath(c.token)
                 THEN IF PaymentNotSuccessful(e.result) THEN Throw(seen, "SettlementRejected")
                      ELSE Return(seen, c.hash, 0)
               ELSE IF LookupFailed(owner, sequence) THEN Throw(seen, "EscrowLookupFailed")
               ELSE [seen EXCEPT !.pc = "autofill", !.stage = "finish",
                                 !.tx = EscrowFinishTx(c.wallet, owner, sequence,
                                                       fulfillment, condition)]

FetchTx(p) ==
  /\ proc[p].pc = "fetch"
  /\ Step(p, EscrowManagerFulfill(proc[p], "", ""))
  /\ UNCHANGED <<ledgerVars, agentWallets, calls>>

(***************************************************************************)
(* The ledger closes with a later close time.                              *)
(***************************************************************************)
Tick ==
  /\ now < MaxTime
  /\ now' = now + 1
  /\ UNCHANGED <<balance, acctSeq, lines, iou, escrows, ledger, agentWallets, proc, last,
                 released, calls>>

(***************************************************************************)
(* Annotations.  A memo has a MemoFormat (the type tag, "" when absent)    *)
(* and a MemoData.  MemoData is modelled by what hex-decoding and          *)
(* JSON.parse make of it: absent, text that is not JSON, the JSON value    *)
(* null, or a JSON object (a record; a field the object lacks is a field   *)
(* the record lacks).                                                      *)
(***************************************************************************)
Memo(format, data) == [format |-> format, data |-> data]

NoData == [json |-> "absent", obj |-> <<>>]
Garbage == [json |-> "garbage", obj |-> <<>>]
JsonNull == [json |-> "null", obj |-> <<>>]

\* Buffer.from(JSON.stringify(obj)).toString('hex')
JSONStringify(obj) == [json |-> "object", obj |-> obj]

\* JSON.parse(Buffer.from(memoData, 'hex').toString('utf-8')): ok = FALSE is a throw
JSONParse(data) ==
  CASE data.json = "object" -> [ok |-> TRUE, isNull |-> FALSE, obj |-> data.obj]
    [] data.json = "null" -> [ok |-> TRUE, isNull |-> TRUE, obj |-> <<>>]
    [] OTHER -> [ok |-> FALSE, isNull |-> FALSE, obj |-> <<>>]

\* obj.k, with dflt for undefined
Get(obj, k, dflt) == IF k \in DOMAIN obj THEN obj[k] ELSE dflt

\* obj.k is a non-empty string
Truthy(obj, k) == k \in DOMAIN obj /\ obj[k] # ""

\* obj with obj.k = v assigned
Assign(obj, k, v) == [f \in DOMAIN obj \cup {k} |-> IF f = k THEN v ELSE obj[f]]

\* new Date(ms).toISOString() and new Date(iso).getTime()
toISOString(ms) == [iso |-> ms]
getTime(timestamp) == timestamp.iso

(***************************************************************************)
(* client.request({command: 'account_tx', account, limit}): the validated  *)
(* transactions that affect the account, newest first, at most limit.      *)
(***************************************************************************)
Affects(entry, address) == entry.tx.account = address \/ entry.tx.dest = address

Reverse(s) == [i \in 1..Len(s) |-> s[Len(s) + 1 - i]]

AccountTx(address, limit) ==
  LET all == Reverse(SelectSeq(ledger, LAMBDA e : Affects(e, address)))
  IN  SubSeq(all, 1, IF Len(all) < limit THEN Len(all) ELSE limit)

\* the memos of the page in the order the scans visit them
RECURSIVE Annotations(_)
Annotations(page) ==
  IF page = <<>> THEN <<>>
  ELSE LET e == Head(page)
       IN  [i \in 1..Len(e.tx.memos) |-> [tx |-> e.tx, memo |-> e.tx.memos[i]]]
             \o Annotations(Tail(page))

(***************************************************************************)
(* The scan loops.  Visiting one memo either throws (caught by the loop's  *)
(* try/catch), or pushes an item, or does nothing.                         *)
(***************************************************************************)
Skips == [threw |-> FALSE, hit |-> FALSE, item |-> <<>>]
Throws == [threw |-> TRUE, hit |-> FALSE, item |-> <<>>]
Pushes(item) == [threw |-> FALSE, hit |-> TRUE, item |-> item]


\* memoFormat && Buffer.from(memoFormat, 'hex').toString() === tag
HasTag(memo, tag) == memo.format = tag

\* XAG.getLogs: logData.message && logData.level
IsLogEntry(logData) == Truthy(logData, "message") /\ Truthy(logData, "level")

\* XAG.getLogs, the body of the loop over memos; clock is the time of the scan
VisitLog(a, clock) ==
  IF a.memo.data.json = "absent" THEN Skips
  ELSE LET parsed == JSONParse(a.memo.data)
       IN  IF ~parsed.ok \/ parsed.isNull THEN Throws
           ELSE IF IsLogEntry(parsed.obj)
             THEN Pushes([message |-> parsed.obj.message, level |-> parsed.obj.level,
                          timestamp |-> Get(parsed.obj, "timestamp", toISOString(clock)),
                          txHash |-> a.tx])
           ELSE Skips

FilteredOut_Never(criteria, intent) == FALSE

\* IntentService.searchIntents: the two `continue` filters ("" is no filter)
FilteredOut(criteria, intent) ==
  \/ criteria.type # "" /\ Get(intent, "type", "") # criteria.type
  \/ criteria.category # "" /\ Get(intent, "category", "") # criteria.category

\* IntentService.searchIntents, the body of the loop over memos
VisitIntent(a, criteria) ==
  IF ~HasTag(a.memo, "xag:intent") THEN Skips
  ELSE LET parsed == JSONParse(a.memo.data)
       IN  IF ~parsed.ok \/ parsed.isNull THEN Throws
           ELSE IF FilteredOut(criteria, parsed.obj) THEN Skips
           ELSE Pushes(Assign(parsed.obj, "txHash", a.tx))

\* negotiation.history[negotiation.history.length - 1].txHash = hash
WithLastTxHash(negotiation, hash) ==
  LET h == negotiation.history
  IN  [negotiation EXCEPT !.history = [h EXCEPT ![Len(h)] = [h[Len(h)] EXCEPT !.txHash = hash]]]

\* NegotiationService.getNegotiation, the body of the loop over memos
VisitNegotiation(a, negotiationId) ==
  IF ~HasTag(a.memo, "xag:negotiation") THEN Skips
  ELSE LET parsed == JSONParse(a.memo.data)
       IN  IF ~parsed.ok \/ parsed.isNull THEN Throws
           ELSE IF Get(parsed.obj, "negotiationId", "") # negotiationId THEN Skips
           ELSE IF Get(parsed.obj, "history", <<>>) = <<>> THEN Throws
           ELSE Pushes(WithLastTxHash(parsed.obj, a.tx))

Visit(kind, a, arg) ==
  CASE kind = "logs" -> VisitLog(a, arg)
    [] kind = "intents" -> VisitIntent(a, arg)
    [] OTHER -> VisitNegotiation(a, arg)

Caught_Rethrow(rest) == [rest EXCEPT !.ok = FALSE]

\* catch (error) { continue; }
Caught(rest) == rest

\* the loops over the transactions of the page and their memos
RECURSIVE Collect(_, _, _)
Collect(kind, anns, arg) ==
  IF anns = <<>> THEN [ok |-> TRUE, items |-> <<>>]
  ELSE LET v == Visit(kind, Head(anns), arg)
           rest == Collect(kind, Tail(anns), arg)
       IN  IF v.threw THEN Caught(rest)
           ELSE IF v.hit THEN [rest EXCEPT !.items = <<v.item>> \o @]
           ELSE rest

\* Array.prototype.sort with the comparator (a, b) => key(b) - key(a): the sort is
\* stable, so the result is the one permutation that puts greater keys first and
\* keeps the order of equal keys.  order[r] is the index of the item placed r-th.
StableDescOrder(keys) ==
  LET n == Len(keys)
      rank(i) == Cardinality({j \in 1..n : keys[j] > keys[i]})
                   + Cardinality({j \in 1..(i - 1) : keys[j] = keys[i]}) + 1
  IN  [r \in 1..n |-> CHOOSE i \in 1..n : rank(i) = r]

SortByTimestamp_Unsorted(items) == items

\* items.sort((a, b) => new Date(b.timestamp).getTime() - new Date(a.timestamp).getTime())
SortByTimestamp(items) ==
  LET order == StableDescOrder([i \in 1..Len(items) |-> getTime(items[i].timestamp)])
  IN  [r \in 1..Len(items) |-> items[order[r]]]

\* timestamp of the last history step of a snapshot
LastStepTime(negotiation) == getTime(negotiation.history[Len(negotiation.history)].timestamp)

SortByLastStep_Unsorted(items) == items

\* NegotiationService.getNegotiation: sort by the last history step's timestamp
SortByLastStep(items) ==
  LET order == StableDescOrder([i \in 1..Len(items) |-> LastStepTime(items[i])])
  IN  [r \in 1..Len(items) |-> items[order[r]]]

(***************************************************************************)
(* The read operations, as functions of the ledger.  result is the         *)
(* returned array (getNegotiation: the one snapshot, or none for null).    *)
(***************************************************************************)
Failed(err) == [ok |-> FALSE, err |-> err, result |-> <<>>]
Returned(result) == [ok |-> TRUE, err |-> "", result |-> result]

\* default limit of XAG.getLogs
DefaultLogLimit == 50
\* default limit of IntentService.searchIntents
DefaultIntentLimit == 100
\* limit of NegotiationService.getNegotiation
NegotiationLimit == 200
\* limit of ReputationService.getReputation
ReputationLimit == 100

\* XAG.getLogs(agentDID, limit) at time clock
getLogs(agentDID, limit, clock) ==
  LET address == resolveDID(agentDID)
      c == Collect("logs", Annotations(AccountTx(address.val, limit)), clock)
  IN  IF ~address.ok THEN Failed("InvalidIdentifier")
      ELSE IF ~c.ok THEN Failed("ScanFailed")
      ELSE Returned(SortByTimestamp(c.items))

\* IntentService.searchIntents(criteria); agentDID NoAddr and limit 0 stand for absent
searchIntents(criteria) ==
  LET address == resolveDID(criteria.agentDID)
      limit == IF criteria.limit = 0 THEN DefaultIntentLimit ELSE criteria.limit
      c == Collect("intents", Annotations(AccountTx(address.val, limit)), criteria)
  IN  IF criteria.agentDID = NoAddr THEN Returned(<<>>)
      ELSE IF ~address.ok THEN Failed("InvalidIdentifier")
      ELSE IF ~c.ok THEN Failed("ScanFailed")
      ELSE Returned(SortByTimestamp(c.items))

\* NegotiationService.getNegotiation(negotiationId, participantDID)
getNegotiation(negotiationId, participantDID) ==
  LET address == resolveDID(participantDID)
      c == Collect("negotiations", Annotations(AccountTx(address.val, NegotiationLimit)),
                   negotiationId)
  IN  IF ~address.ok THEN Failed("InvalidIdentifier")
      ELSE IF ~c.ok THEN Failed("ScanFailed")
      ELSE IF Len(c.items) > 0 THEN Returned(<<SortByLastStep(c.items)[1]>>)
      ELSE Returned(<<>>)

\* ReputationService.getReputation: tx.meta?.TransactionResult ||
\* tx.meta?.delivered_amount !== undefined.  A validated transaction has a result.
OutcomeOf(entry) == entry.result

\* ReputationService.getReputation: result === 'tesSUCCESS' || result !== undefined
CountsAsSuccessful(result) == result = "tesSUCCESS" \/ result # "undefined"

\* typeof amount === 'object' && amount?.currency === 'RLUSD'
IsRLUSD(tx) == tx.currency = "RLUSD"

ReputationScore_Unweighted(totalSuccessful) == totalSuccessful

\* ReputationService.getReputation: totalSuccessful * 10
ReputationScore(totalSuccessful) == totalSuccessful * 10

\* ReputationService.getReputation(did)
getReputation(did) ==
  LET address == resolveDID(did)
      allTransactions == AccountTx(address.val, ReputationLimit)
      count(type) == Len(SelectSeq(allTransactions,
                       LAMBDA e : /\ e.tx.type = type
                                  /\ CountsAsSuccessful(OutcomeOf(e))
                                  /\ type = "Payment" => IsRLUSD(e.tx)))
      totalSuccessful == count("EscrowFinish") + count("EscrowCreate") + count("Payment")
  IN  IF ~address.ok THEN Failed("InvalidIdentifier")
      ELSE Returned(<<[did |-> did, address |-> address.val,
                       score |-> ReputationScore(totalSuccessful),
                       successfulTrades |-> totalSuccessful,
                       escrowCreates |-> count("EscrowCreate"),
                       escrowFinishes |-> count("EscrowFinish"),
                       payments |-> count("Payment")]>>)

(***************************************************************************)
(* Profiles.  updateProfile publishes a profile as the Data of a DIDSet;   *)
(* an account has at most one DID object, and a successful DIDSet that     *)
(* carries URI and Data replaces both.  A DIDSet of updateProfile names    *)
(* the published profile in its last field and holds the clock of          *)
(* updatedAt in the finishAfter field.                                     *)
(***************************************************************************)
\* the profiles given to updateProfile
Profiles ==
  [full |-> [capabilities |-> <<"a", "b">>, pricing |-> "rate"],
   bare |-> [description |-> "d"]]

ProfileNames == DOMAIN Profiles

ProfileURI == "xag:profile"

\* ProfileManager.updateProfile: profileData (JSON.stringify leaves out undefined fields)
ProfileData(profile, clock) ==
  [f \in (DOMAIN profile \cap {"pricing", "availability", "description", "contact"})
          \cup {"capabilities", "metadata", "updatedAt"} |->
     CASE f = "capabilities" -> Get(profile, "capabilities", <<>>)
       [] f = "metadata" -> Get(profile, "metadata", <<>>)
       [] f = "updatedAt" -> toISOString(clock)
       [] OTHER -> profile[f]]

\* ProfileManager.updateProfile: didTx
ProfileTx(wallet, name, clock) ==
  Tx("DIDSet", wallet, 0, "", 0, NoAddr, NoAddr, 0, clock, ProfileURI, name)

\* the Data field of a DIDSet: profileData of updateProfile, { name, type } of registerDID
DataOf(tx) ==
  IF tx.fulfillment \in ProfileNames
    THEN JSONStringify(ProfileData(Profiles[tx.fulfillment], tx.finishAfter))
  ELSE IF tx.fulfillment = "" THEN NoData
  ELSE JSONStringify([name |-> "a", type |-> tx.fulfillment])

\* account_objects of type did: the DID object of the account, if it has one
DidObjects(address) ==
  LET sets == SelectSeq(ledger, LAMBDA e : /\ e.tx.type = "DIDSet" /\ e.tx.account = address
                                           /\ e.result = "tesSUCCESS")
  IN  IF sets = <<>> THEN <<>>
      ELSE <<[URI |-> sets[Len(sets)].tx.condition, Data |-> DataOf(sets[Len(sets)].tx)]>>

\* limit of the account_tx request of ProfileManager.getProfile
ProfileLimit == 50

\* profileData.capabilities !== undefined || profileData.pricing !== undefined
IsProfile(profileData) ==
  "capabilities" \in DOMAIN profileData \/ "pricing" \in DOMAIN profileData

\* JSON.parse of a Data field gives an object that is a profile
ParsesAsProfile(data) ==
  LET parsed == JSONParse(data)
  IN  parsed.ok /\ ~parsed.isNull /\ IsProfile(parsed.obj)

\* uri.includes('xag:profile')
IsProfileURI(uri) == uri = ProfileURI

\* ProfileManager.getProfile: the loop over the transaction history
RECURSIVE HistoryProfile(_)
HistoryProfile(page) ==
  IF page = <<>> THEN <<>>
  ELSE LET txData == Head(page).tx
       IN  IF /\ txData.type = "DIDSet" /\ DataOf(txData) # NoData
              /\ ParsesAsProfile(DataOf(txData))
             THEN <<JSONParse(DataOf(txData)).obj>>
           ELSE HistoryProfile(Tail(page))

\* ProfileManager.getProfile: the loop over the DID objects.  A Data field that does
\* not parse ends the visit of its object (continue).
RECURSIVE ScanDidObjects(_, _)
ScanDidObjects(didObjects, agentAddress) ==
  IF didObjects = <<>> THEN <<>>
  ELSE LET didData == Head(didObjects)
           parsed == JSONParse(didData.Data)
           fromHistory == HistoryProfile(AccountTx(agentAddress, ProfileLimit))
       IN  IF didData.Data # NoData /\ (~parsed.ok \/ parsed.isNull)
             THEN ScanDidObjects(Tail(didObjects), agentAddress)
           ELSE IF didData.Data # NoData /\ IsProfile(parsed.obj)
             THEN <<parsed.obj>>
           ELSE IF didData.URI # "" /\ IsProfileURI(didData.URI) /\ fromHistory # <<>>
             THEN fromHistory
           ELSE ScanDidObjects(Tail(didObjects), agentAddress)

\* ProfileManager.getProfile(agentAddress): <<>> stands for null.  online is whether the
\* ledger answers; a request for an address that is no account fails as well.
getProfile(agentAddress, online) ==
  IF ~online \/ agentAddress \notin Addr THEN Returned(<<>>)
  ELSE Returned(ScanDidObjects(DidObjects(agentAddress), agentAddress))

(***************************************************************************)
(* VerificationService.verifyAgent.  down is the set of checks whose       *)
(* ledger request fails.  requirements holds minReputation (0 when the     *)
(* caller gave none), requireProfile, and requiredCapabilities if given.   *)
(***************************************************************************)
Checks == {"identity", "reputation", "profile"}

\* account_info answers with account_data: the address is an account of the ledger
AccountInfo(address, down) == "identity" \notin down /\ address \in Addr

\* requirements.requiredCapabilities.every(cap => profile.capabilities.includes(cap))
HasAll(requiredCapabilities, capabilities) ==
  \A i \in 1..Len(requiredCapabilities) : requiredCapabilities[i] \in Range(capabilities)

\* VerificationService.verifyAgent: the 'capabilities' credential is pushed
CapabilitiesCredential(requirements, profile) ==
  /\ profile # <<>>
  /\ "requiredCapabilities" \in DOMAIN requirements
  /\ "capabilities" \in DOMAIN profile[1]
  /\ HasAll(requirements.requiredCapabilities, profile[1].capabilities)

\* VerificationService.verifyAgent: the score of the claims and credentials
VerificationScore(claims) ==
  (IF claims.identity THEN 25 ELSE 0) + (IF claims.reputation THEN 25 ELSE 0)
    + (IF claims.profile THEN 25 ELSE 0) + (IF Len(claims.credentials) > 2 THEN 25 ELSE 0)

\* VerificationService.verifyAgent: verified
Verified(requirements, claims, score) ==
  /\ score >= 50
  /\ requirements.minReputation = 0 \/ claims.reputation
  /\ ~requirements.requireProfile \/ claims.profile

\* VerificationService.verifyAgent(agentDID, requirements)
verifyAgent(agentDID, requirements, down) ==
  LET address == resolveDID(agentDID)
      identity == AccountInfo(address.val, down)
      reputation == getReputation(agentDID)
      minRep == requirements.minReputation
      reputed == "reputation" \notin down /\ reputation.ok
                   /\ reputation.result[1].score >= minRep
      profile == getProfile(address.val, "profile" \notin down).result
      credentials ==
        (IF identity THEN <<"identity">> ELSE <<>>)
          \o (IF reputed THEN <<"reputation">> ELSE <<>>)
          \o (IF profile # <<>> THEN <<"profile">> ELSE <<>>)
          \o (IF CapabilitiesCredential(requirements, profile) THEN <<"capabilities">> ELSE <<>>)
      claims == [identity |-> identity, reputation |-> reputed, profile |-> profile # <<>>,
                 credentials |-> credentials]
      score == VerificationScore(claims)
  IN  IF ~address.ok THEN Failed("InvalidIdentifier")
      ELSE Returned(<<[agentDID |-> agentDID,
                       verified |-> Verified(requirements, claims, score),
                       claims |-> claims, score |-> score]>>)

(***************************************************************************)
(* The broadcast transaction: a 1-drop payment to the sink with one memo.  *)
(***************************************************************************)
BroadcastTx(wallet, memo) ==
  [Tx("Payment", wallet, 0, "XRP", 1, Sink, NoAddr, 0, 0, "", "") EXCEPT !.memos = <<memo>>]

\* XAG.log: logData
LogData(message, level, clock, agentDID) ==
  [message |-> message, level |-> level, timestamp |-> toISOString(clock),
   agent |-> agentDID]

\* IntentService.broadcastIntent: { agentDID, ...intent, timestamp, status: 'active' }
IntentData(agentDID, intent, clock) ==
  [f \in {"agentDID", "timestamp", "status"} \cup DOMAIN intent |->
     CASE f = "timestamp" -> toISOString(clock)
       [] f = "status" -> "active"
       [] f \in DOMAIN intent -> intent[f]
       [] OTHER -> agentDID]

InitialNegotiation_StepZero(negotiationId, initiatorDID, participantDID, initialOffer, clock) ==
  [negotiationId |-> negotiationId,
   participants |-> <<initiatorDID, participantDID>>,
   status |-> "initiated",
   currentOffer |-> [from |-> initiatorDID, to |-> participantDID, terms |-> initialOffer,
                     timestamp |-> toISOString(clock)],
   history |-> <<[step |-> 0, from |-> initiatorDID, action |-> "offer",
                  terms |-> initialOffer, timestamp |-> toISOString(clock),
                  txHash |-> NoTx]>>]

\* NegotiationService.initiateNegotiation: the first snapshot
InitialNegotiation(negotiationId, initiatorDID, participantDID, initialOffer, clock) ==
  [negotiationId |-> negotiationId,
   participants |-> <<initiatorDID, participantDID>>,
   status |-> "initiated",
   currentOffer |-> [from |-> initiatorDID, to |-> participantDID, terms |-> initialOffer,
                     timestamp |-> toISOString(clock)],
   history |-> <<[step |-> 1, from |-> initiatorDID, action |-> "offer",
                  terms |-> initialOffer, timestamp |-> toISOString(clock),
                  txHash |-> NoTx]>>]

\* identifiers and intents used as inputs
dB == createDID(rB)
dS == createDID(rS)

OfferA == [type |-> "offer", category |-> "a", description |-> "d"]
RequestA == [type |-> "request", category |-> "a", description |-> "d"]
OfferB == [type |-> "offer", category |-> "b", description |-> "d"]
\* an intent whose payload has a message and a level
OfferWithMessage ==
  [type |-> "offer", category |-> "a", description |-> "d", message |-> "m", level |-> "info"]

UpdatedNegotiation_Restart(negotiation, responderDID, action, counterTerms, clock) ==
  [InitialNegotiation(negotiation.negotiationId, responderDID,
                      negotiation.currentOffer.from,
                      IF counterTerms # "" THEN counterTerms
                      ELSE negotiation.currentOffer.terms, clock)
     EXCEPT !.status = IF action = "accept" THEN "accepted"
                       ELSE IF action = "reject" THEN "rejected" ELSE "counter-offer"]

\* NegotiationService.counterOffer: the snapshot it broadcasts, built from the
\* snapshot it read
UpdatedNegotiation(negotiation, responderDID, action, counterTerms, clock) ==
  LET newStep == Len(negotiation.history) + 1
      newStatus == IF action = "accept" THEN "accepted"
                   ELSE IF action = "reject" THEN "rejected"
                   ELSE "counter-offer"
      step == [step |-> newStep, from |-> responderDID, action |-> action,
               terms |-> IF counterTerms # "" THEN counterTerms
                         ELSE negotiation.currentOffer.terms,
               timestamp |-> toISOString(clock), txHash |-> NoTx]
  IN  [negotiation EXCEPT
         !.status = newStatus,
         !.history = Append(@, step),
         !.currentOffer = IF action = "counter" /\ counterTerms # ""
                            THEN [from |-> responderDID, to |-> negotiation.currentOffer.from,
                                  terms |-> counterTerms, timestamp |-> toISOString(clock)]
                          ELSE @]

\* NegotiationService.counterOffer: the first negotiation-tagged memo that parses
FirstNegotiation(memos) ==
  LET hits == {i \in 1..Len(memos) :
                 HasTag(memos[i], "xag:negotiation") /\ JSONParse(memos[i].data).ok}
  IN  IF hits = {} THEN [found |-> FALSE, obj |-> <<>>]
      ELSE LET i == CHOOSE i \in hits : \A j \in hits : i <= j
               parsed == JSONParse(memos[i].data)
           IN  [found |-> ~parsed.isNull, obj |-> parsed.obj]

(***************************************************************************)
(* The broadcasting operations, up to their first ledger request.  The     *)
(* embedded timestamps are read from the clock of the ledger.              *)
(***************************************************************************)
\* log accepts every string as message, the empty one too
Messages == {"m", ""}
Levels == {"info"}
Intents == {OfferA, OfferWithMessage}
Actions == {"counter", "accept", "reject"}
\* counterTerms; "" is none
CounterTerms == {"", "t2"}
\* the identifiers initiateNegotiation generates, in the order it generates them
NegotiationIds == <<"n1", "n2">>

\* the invocation broadcasts memo from wallet
Broadcast(c, wallet, memo) ==
  [c EXCEPT !.pc = "autofill", !.stage = "broadcast", !.wallet = wallet,
            !.tx = BroadcastTx(wallet, memo)]

\* XAG.log
BeginLog(p) ==
  /\ FreeSlot(p)
  /\ \E message \in Messages, level \in Levels, agentDID \in BuyerIds \cup {rB},
        agentSeed \in {"sB", NoSeed} :
       LET w == getWalletFromDID(agentDID, agentSeed)
           c == [IdleProc EXCEPT !.op = "log",
                   !.args = [message |-> message, level |-> level, agentDID |-> agentDID]]
       IN  IF ~w.ok THEN Complete(p, Throw(c, "WalletNotFound"))
           ELSE Continue(p, Broadcast(c, w.wallet,
                  Memo("", JSONStringify(LogData(message, level, now, agentDID)))))
  /\ calls' = [calls EXCEPT !.log = @ + 1]
  /\ UNCHANGED <<ledgerVars, agentWallets>>

\* IntentService.broadcastIntent
BeginBroadcastIntent(p) ==
  /\ FreeSlot(p)
  /\ \E agentDID \in BuyerIds, intent \in Intents, agentSeed \in {"sB", NoSeed} :
       LET c == [IdleProc EXCEPT !.op = "broadcastIntent",
                   !.args = [agentDID |-> agentDID, intent |-> intent]]
       IN  IF ~resolveDID(agentDID).ok THEN Complete(p, Throw(c, "InvalidIdentifier"))
           ELSE IF agentSeed = NoSeed THEN Complete(p, Throw(c, "WalletRequired"))
           ELSE Continue(p, Broadcast(c, fromSeed(agentSeed),
                  Memo("xag:intent", JSONStringify(IntentData(agentDID, intent, now)))))
  /\ calls' = [calls EXCEPT !.broadcastIntent = @ + 1]
  /\ UNCHANGED <<ledgerVars, agentWallets>>

\* IntentService.updateIntentStatus: updateData
UpdateData(intentTxHash, status, clock) ==
  [action |-> "update_intent", intentHash |-> intentTxHash, status |-> status,
   timestamp |-> toISOString(clock)]

\* IntentService.updateIntentStatus
BeginUpdateIntentStatus(p) ==
  /\ FreeSlot(p)
  /\ \E intentTxHash \in Hashes, agentDID \in BuyerIds, status \in {"fulfilled", "cancelled"},
        agentSeed \in {"sB", NoSeed} :
       LET c == [IdleProc EXCEPT !.op = "updateIntentStatus", !.hash = intentTxHash,
                   !.args = [agentDID |-> agentDID, status |-> status]]
       IN  IF ~resolveDID(agentDID).ok THEN Complete(p, Throw(c, "InvalidIdentifier"))
           ELSE IF agentSeed = NoSeed THEN Complete(p, Throw(c, "WalletRequired"))
           ELSE Continue(p, Broadcast(c, fromSeed(agentSeed),
                  Memo("xag:intent:update",
                       JSONStringify(UpdateData(intentTxHash, status, now)))))
  /\ calls' = [calls EXCEPT !.updateIntentStatus = @ + 1]
  /\ UNCHANGED <<ledgerVars, agentWallets>>

\* ProfileManager.updateProfile(wallet, profile)
BeginUpdateProfile(p) ==
  /\ FreeSlot(p)
  /\ \E seed \in Seeds, name \in ProfileNames :
       Continue(p, [IdleProc EXCEPT !.op = "updateProfile", !.pc = "autofill",
                                   !.stage = "profile", !.wallet = fromSeed(seed),
                                   !.tx = ProfileTx(fromSeed(seed), name, now),
                                   !.args = [seed |-> seed, profile |-> name]])
  /\ calls' = [calls EXCEPT !.updateProfile = @ + 1]
  /\ UNCHANGED <<ledgerVars, agentWallets>>

\* NegotiationService.initiateNegotiation
BeginInitiateNegotiation(p) ==
  /\ FreeSlot(p)
  /\ calls.initiateNegotiation < Len(NegotiationIds)
  /\ \E initiatorDID \in BuyerIds, participantDID \in SellerIds, initialOffer \in {"t1"},
        initiatorSeed \in {"sB", NoSeed} :
       LET negotiationId == NegotiationIds[calls.initiateNegotiation + 1]
           c == [IdleProc EXCEPT !.op = "initiateNegotiation",
                   !.args = [negotiationId |-> negotiationId, initiatorDID |-> initiatorDID,
                             participantDID |-> participantDID]]
       IN  IF ~resolveDID(initiatorDID).ok THEN Complete(p, Throw(c, "InvalidIdentifier"))
           ELSE IF initiatorSeed = NoSeed THEN Complete(p, Throw(c, "WalletRequired"))
           ELSE Continue(p, Broadcast(c, fromSeed(initiatorSeed),
                  Memo("xag:negotiation", JSONStringify(
                    InitialNegotiation(negotiationId, initiatorDID, participantDID,
                                       initialOffer, now)))))
  /\ calls' = [calls EXCEPT !.initiateNegotiation = @ + 1]
  /\ UNCHANGED <<ledgerVars, agentWallets>>

\* NegotiationService.counterOffer, up to the `tx` request
BeginCounterOffer(p) ==
  /\ FreeSlot(p)
  /\ \E negotiationId \in Range(NegotiationIds), originalTxHash \in Hashes,
        responderDID \in SellerIds, action \in Actions, counterTerms \in CounterTerms,
        responderSeed \in Seeds \cup {NoSeed} :
       LET c == [IdleProc EXCEPT !.op = "counterOffer", !.hash = originalTxHash,
                   !.args = [negotiationId |-> negotiationId, responderDID |-> responderDID,
                             action |-> action, counterTerms |-> counterTerms]]
       IN  IF ~resolveDID(responderDID).ok THEN Complete(p, Throw(c, "InvalidIdentifier"))
           ELSE IF responderSeed = NoSeed THEN Complete(p, Throw(c, "WalletRequired"))
           ELSE Continue(p, [c EXCEPT !.pc = "fetchNegotiation",
                                      !.wallet = fromSeed(responderSeed)])
  /\ calls' = [calls EXCEPT !.counterOffer = @ + 1]
  /\ UNCHANGED <<ledgerVars, agentWallets>>

\* NegotiationService.counterOffer: the `tx` request and what follows it up to autofill
CounterOfferFetched(c) ==
  LET found == Validated(c.hash)
      e == CHOOSE e \in found : TRUE
      first == FirstNegotiation(e.tx.memos)
  IN  IF found = {} THEN Throw([c EXCEPT !.fetched = "notFound"], "TxnNotFound")
      ELSE IF ~first.found \/ Get(first.obj, "negotiationId", "") # c.args.negotiationId
        THEN Throw([c EXCEPT !.fetched = e.result], "NegotiationNotFound")
      ELSE Broadcast([c EXCEPT !.fetched = e.result], c.wallet,
             Memo("xag:negotiation", JSONStringify(
               UpdatedNegotiation(first.obj, c.args.responderDID, c.args.action,
                                  c.args.counterTerms, now))))

FetchNegotiation(p) ==
  /\ proc[p].pc = "fetchNegotiation"
  /\ Step(p, CounterOfferFetched(proc[p]))
  /\ UNCHANGED <<ledgerVars, agentWallets, calls>>

(***************************************************************************)
(* The specification.                                                      *)
(***************************************************************************)
Init ==
  /\ balance \in {[a \in Addr |-> IF a = rB THEN b ELSE 5 * ReserveDrops] :
                    b \in {DropsPerXrp + ReserveDrops, 2 * DropsPerXrp}}
  /\ acctSeq = [a \in Addr |-> 1]
  /\ lines \in {[a \in Addr |-> IF a = rB THEN TRUE ELSE l] : l \in BOOLEAN}
  /\ iou = [a \in Addr |-> IF a = rB THEN 1 ELSE 0]
  /\ escrows = {}
  /\ ledger = <<[tx |-> TicketedTx, result |-> "tesSUCCESS"]>>
  /\ now = 0
  /\ agentWallets = [d \in {} |-> NoAddr]
  /\ proc = [p \in Procs |-> IdleProc]
  /\ last = IdleProc
  /\ released = <<>>
  /\ calls = [initiateTrade |-> 0, fulfillTrade |-> 0]

Next ==
  \/ \E p \in Procs : BeginInitiateTrade(p)
  \/ \E p \in Procs : CheckBalance(p)
  \/ \E p \in Procs : CheckTrustLine(p)
  \/ \E p \in Procs : Autofill(p)
  \/ \E p \in Procs : SubmitAndWait(p)
  \/ \E p \in Procs : BeginFulfillTrade(p)
  \/ \E p \in Procs : FetchTx(p)
  \/ Tick

Spec == Init /\ [][Next]_vars

(***************************************************************************)
(* The read operations over an account history.  The history holds         *)
(* broadcasts of this SDK, annotations of other origin and settlement      *)
(* transactions, in any order: the embedded timestamps are client clocks   *)
(* and need not agree with the order of the ledger.                        *)
(***************************************************************************)
\* transactions in the history
MaxPage == 3
\* embedded timestamps are 1..MaxStamp
MaxStamp == 3
\* read operations in one behaviour
MaxReads == 1

Stamps == 1..MaxStamp

ScanMemos ==
  {Memo("", JSONStringify(LogData("m", "info", t, dB))) : t \in Stamps}
    \cup {Memo("xag:intent", JSONStringify(IntentData(dB, OfferA, t))) : t \in Stamps}
    \cup {Memo("xag:negotiation", JSONStringify(InitialNegotiation("n1", dB, dS, "terms", t))) :
            t \in Stamps}
    \cup {Memo("", JSONStringify([message |-> "m", level |-> "warn"])),
          Memo("xag:intent", JSONStringify(IntentData(dB, RequestA, 2))),
          Memo("xag:intent", JSONStringify(IntentData(dB, OfferB, 2))),
          Memo("xag:intent", JSONStringify(IntentData(dB, OfferWithMessage, 2))),
          Memo("xag:negotiation", JSONStringify(InitialNegotiation("n2", dB, dS, "terms", 2))),
          Memo("", JsonNull), Memo("xag:intent", Garbage), Memo("xag:negotiation", NoData)}

ValidatedOk(tx) == [tx |-> tx, result |-> "tesSUCCESS"]

ScanEntries ==
  {ValidatedOk(BroadcastTx(rB, m)) : m \in ScanMemos}
    \cup {ValidatedOk([BroadcastTx(rB, Memo("", Garbage)) EXCEPT
                         !.memos = @ \o <<Memo("", JSONStringify(LogData("m", "info", 2, dB)))>>]),
          ValidatedOk([BroadcastTx(rB, Memo("xag:negotiation", Garbage)) EXCEPT
                         !.memos = @ \o <<Memo("xag:negotiation", JSONStringify(
                                            InitialNegotiation("n1", dB, dS, "terms", 3)))>>]),
          ValidatedOk(EscrowCreateTx(rB, 1, rS, "", 1)),
          [tx |-> EscrowCreateTx(rB, 2, rS, "", 1), result |-> "tecUNFUNDED"],
          ValidatedOk(EscrowFinishTx(rB, rS, 1, "", "")),
          ValidatedOk(RLUSDPaymentTx(rB, rS, 1))}

\* the i-th transaction of the history has sequence number i
Sequenced(h) == [i \in 1..Len(h) |-> [h[i] EXCEPT !.tx.seq = i]]

Histories == {Sequenced(h) : h \in UNION {[1..n -> ScanEntries] : n \in 0..MaxPage}}


\* a read operation returns r; nothing else changes
ReadDone(op, args, r) ==
  /\ last' = [IdleProc EXCEPT !.op = op, !.pc = "done", !.ok = r.ok, !.err = r.err,
                              !.args = args, !.result = r.result]
  /\ calls.reads < MaxReads
  /\ calls' = [calls EXCEPT !.reads = @ + 1]
  /\ UNCHANGED <<ledgerVars, agentWallets, proc, released>>

\* the inputs of the scans: the account of the history, or an invalid identifier
\* (then with the default limit and no filter)
ScanInputs ==
  {[agentDID |-> dB, type |-> t, category |-> c, limit |-> 0] :
     t \in {"", "offer", "request"}, c \in {"", "a"}}
    \cup {[agentDID |-> dB, type |-> "", category |-> "", limit |-> 2]}
    \cup {[agentDID |-> d, type |-> "", category |-> "", limit |-> 0] : d \in {BadId, NoAddr}}

GetLogs ==
  \E i \in {i \in ScanInputs : i.type = "" /\ i.category = "" /\ i.agentDID # NoAddr} :
    LET limit == IF i.limit = 0 THEN DefaultLogLimit ELSE i.limit
    IN  ReadDone("getLogs", [agentDID |-> i.agentDID, limit |-> limit],
                 getLogs(i.agentDID, limit, now))

SearchIntents ==
  \E criteria \in ScanInputs : ReadDone("searchIntents", criteria, searchIntents(criteria))

GetNegotiation ==
  \E negotiationId \in {"n1", "n2"}, participantDID \in {dB, dS, BadId} :
    ReadDone("getNegotiation",
             [negotiationId |-> negotiationId, participantDID |-> participantDID],
             getNegotiation(negotiationId, participantDID))

GetReputation ==
  \E did \in {dB, BadId} : ReadDone("getReputation", [did |-> did], getReputation(did))

InitScan ==
  /\ balance = [a \in Addr |-> DropsPerXrp]
  /\ acctSeq = [a \in Addr |-> MaxPage + 1]
  /\ lines = [a \in Addr |-> TRUE]
  /\ iou = [a \in Addr |-> 1]
  /\ escrows = {}
  /\ ledger \in Histories
  /\ now = MaxStamp + 1
  /\ agentWallets = [d \in {} |-> NoAddr]
  /\ proc = [p \in Procs |-> IdleProc]
  /\ last = IdleProc
  /\ released = <<>>
  /\ calls = [reads |-> 0]

NextScan ==
  \/ GetLogs
  \/ SearchIntents
  \/ GetNegotiation
  \/ GetReputation

SpecScan == InitScan /\ [][NextScan]_vars

(***************************************************************************)
(* The write operations together: at most MaxWrites invocations of the six *)
(* operations that submit transactions, MaxProcs of them at a time.        *)
(***************************************************************************)
\* invocations of write operations in one behaviour
MaxWrites == 2

NoCalls ==
  [initiateTrade |-> 0, fulfillTrade |-> 0, log |-> 0, broadcastIntent |-> 0,
   initiateNegotiation |-> 0, counterOffer |-> 0]

Writes ==
  calls.initiateTrade + calls.fulfillTrade + calls.log + calls.broadcastIntent
    + calls.initiateNegotiation + calls.counterOffer

InitWrite ==
  /\ balance = [a \in Addr |-> 2 * DropsPerXrp]
  /\ acctSeq = [a \in Addr |-> 1]
  /\ lines = [a \in Addr |-> a = rB]
  /\ iou = [a \in Addr |-> IF a = rB THEN 1 ELSE 0]
  /\ escrows = {}
  /\ ledger = <<>>
  /\ now = 0
  /\ agentWallets = [d \in {} |-> NoAddr]
  /\ proc = [p \in Procs |-> IdleProc]
  /\ last = IdleProc
  /\ released = <<>>
  /\ calls = NoCalls

NextWrite ==
  \/ \E p \in Procs : Writes < MaxWrites /\ BeginInitiateTrade(p)
  \/ \E p \in Procs : Writes < MaxWrites /\ BeginFulfillTrade(p)
  \/ \E p \in Procs : Writes < MaxWrites /\ BeginLog(p)
  \/ \E p \in Procs : Writes < MaxWrites /\ BeginBroadcastIntent(p)
  \/ \E p \in Procs : Writes < MaxWrites /\ BeginInitiateNegotiation(p)
  \/ \E p \in Procs : Writes < MaxWrites /\ BeginCounterOffer(p)
  \/ \E p \in Procs : CheckBalance(p)
  \/ \E p \in Procs : CheckTrustLine(p)
  \/ \E p \in Procs : FetchTx(p)
  \/ \E p \in Procs : FetchNegotiation(p)
  \/ \E p \in Procs : Autofill(p)
  \/ \E p \in Procs : SubmitAndWait(p)
  \/ Tick

SpecWrite == InitWrite /\ [][NextWrite]_vars

(***************************************************************************)
(* One negotiation: an initiateNegotiation and up to MaxCounters           *)
(* counterOffer invocations, MaxProcs of them at a time.                   *)
(***************************************************************************)
\* counterOffer invocations in one behaviour
MaxCounters == 2

NextNegotiation ==
  \/ \E p \in Procs : calls.initiateNegotiation < 1 /\ BeginInitiateNegotiation(p)
  \/ \E p \in Procs : calls.counterOffer < MaxCounters /\ BeginCounterOffer(p)
  \/ \E p \in Procs : FetchNegotiation(p)
  \/ \E p \in Procs : Autofill(p)
  \/ \E p \in Procs : SubmitAndWait(p)
  \/ Tick

SpecNegotiation == InitWrite /\ [][NextNegotiation]_vars

(***************************************************************************)
(* Agents: up to MaxAgents createAgent invocations on one XAG instance,    *)
(* together with later operations that name the agents, MaxProcs of them   *)
(* at a time.  The ledger starts as in the write specification.            *)
(***************************************************************************)
\* createAgent invocations in one behaviour
MaxAgents == 2

\* invocations of log, initiateTrade and fulfillTrade in one behaviour of the agent
\* specification
MaxAgentOps == 1

AgentOps == calls.log + calls.initiateTrade + calls.fulfillTrade

InitAgent ==
  /\ balance = [a \in Addr |-> 2 * DropsPerXrp]
  /\ acctSeq = [a \in Addr |-> 1]
  /\ lines = [a \in Addr |-> a = rB]
  /\ iou = [a \in Addr |-> IF a = rB THEN 1 ELSE 0]
  /\ escrows = {}
  /\ ledger = <<>>
  /\ now = 0
  /\ agentWallets = [d \in {} |-> NoAddr]
  /\ proc = [p \in Procs |-> IdleProc]
  /\ last = IdleProc
  /\ released = <<>>
  /\ calls = [op \in DOMAIN NoCalls \cup {"createAgent"} |-> 0]

NextAgent ==
  \/ \E p \in Procs : calls.createAgent < MaxAgents /\ BeginCreateAgent(p)
  \/ \E p \in Procs : AgentLines(p)
  \/ \E p \in Procs : StoreWallet(p)
  \/ \E p \in Procs : AgentOps < MaxAgentOps /\ BeginLog(p)
  \/ \E p \in Procs : AgentOps < MaxAgentOps /\ BeginInitiateTrade(p)
  \/ \E p \in Procs : CheckBalance(p)
  \/ \E p \in Procs : CheckTrustLine(p)
  \/ \E p \in Procs : AgentOps < MaxAgentOps /\ BeginFulfillTrade(p)
  \/ \E p \in Procs : FetchTx(p)
  \/ \E p \in Procs : Autofill(p)
  \/ \E p \in Procs : SubmitAndWait(p)

SpecAgent == InitAgent /\ [][NextAgent]_vars

(***************************************************************************)
(* Logs written and read back: up to MaxLogs log invocations, MaxProcs of  *)
(* them at a time, and getLogs reading the ledger they write.              *)
(***************************************************************************)
\* log invocations in one behaviour of the log specification
MaxLogs == 3

InitLog ==
  /\ balance = [a \in Addr |-> 2 * DropsPerXrp]
  /\ acctSeq = [a \in Addr |-> 1]
  /\ lines = [a \in Addr |-> a = rB]
  /\ iou = [a \in Addr |-> IF a = rB THEN 1 ELSE 0]
  /\ escrows = {}
  /\ ledger = <<>>
  /\ now = 0
  /\ agentWallets = [d \in {} |-> NoAddr]
  /\ proc = [p \in Procs |-> IdleProc]
  /\ last = IdleProc
  /\ released = <<>>
  /\ calls = [log |-> 0, reads |-> 0]

NextLog ==
  \/ \E p \in Procs : calls.log < MaxLogs /\ BeginLog(p)
  \/ \E p \in Procs : Autofill(p)
  \/ \E p \in Procs : SubmitAndWait(p)
  \/ GetLogs
  \/ Tick

SpecLog == InitLog /\ [][NextLog]_vars

(***************************************************************************)
(* XAG.getTransactionHistory.  A raw entry of the account_tx response is a *)
(* record that holds the transaction under tx (with hash and date inside)  *)
(* or under tx_json (with hash beside it), and the result under meta; any  *)
(* of TransactionType, date and meta may be missing.                       *)
(***************************************************************************)
\* seconds between the Unix epoch and the Ripple epoch
RippleEpoch == 946684800

\* a || b on strings, '' and undefined both being ""
Or(a, b) == IF a # "" THEN a ELSE b

OrUnknown_Empty(v) == v

\* v || 'Unknown'
OrUnknown(v) == Or(v, "Unknown")

\* timestamp: undefined
NoTimestamp == [undefined |-> TRUE]

\* new Date((date + 946684800) * 1000).toISOString(): the instant, in seconds since
\* the Unix epoch
FromRippleTime(date) == [unix |-> date + RippleEpoch]

\* the object the map callback returns for the raw entry tx
HistoryItem(tx) ==
  LET inner == Get(tx, "tx", <<>>)
      json == Get(tx, "tx_json", <<>>)
      meta == Get(tx, "meta", <<>>)
      innerHash == Get(inner, "hash", NoTx)
      date == Get(inner, "date", 0)
  IN  [hash |-> IF innerHash # NoTx THEN innerHash ELSE Get(tx, "hash", NoTx),
       type |-> OrUnknown(Or(Get(inner, "TransactionType", ""),
                             Get(json, "TransactionType", ""))),
       result |-> OrUnknown(Get(meta, "TransactionResult", "")),
       timestamp |-> IF date # 0 THEN FromRippleTime(date) ELSE NoTimestamp]

\* XAG.getTransactionHistory(agentDID, limit), transactions being the page the
\* ledger client returns
getTransactionHistory(agentDID, transactions) ==
  IF ~resolveDID(agentDID).ok THEN Failed("InvalidIdentifier")
  ELSE Returned([i \in 1..Len(transactions) |-> HistoryItem(transactions[i])])

(***************************************************************************)
(* How the ledger client renders a validated transaction: wrap says where  *)
(* the transaction is held, typed, dated and meta whether the entry has a  *)
(* TransactionType, a date and a meta.  The i-th transaction of an account *)
(* closes at time i.                                                       *)
(***************************************************************************)
Shapes == [wrap : {"tx", "tx_json"}, typed : BOOLEAN, dated : BOOLEAN, meta : BOOLEAN]

Fields(e, shape) ==
  LET keys == (IF shape.typed THEN {"TransactionType"} ELSE {})
                \cup (IF shape.dated THEN {"date"} ELSE {})
                \cup (IF shape.wrap = "tx" THEN {"hash"} ELSE {})
  IN  [k \in keys |-> CASE k = "TransactionType" -> e.tx.type
                         [] k = "date" -> e.tx.seq
                         [] k = "hash" -> e.tx]

RawEntry(e, shape) ==
  LET keys == {shape.wrap} \cup (IF shape.wrap = "tx_json" THEN {"hash"} ELSE {})
                \cup (IF shape.meta THEN {"meta"} ELSE {})
  IN  [k \in keys |-> CASE k = "hash" -> e.tx
                         [] k = "meta" -> [TransactionResult |-> e.result]
                         [] OTHER -> Fields(e, shape)]

RawPage(address, limit, shape) ==
  LET page == AccountTx(address, limit)
  IN  [i \in 1..Len(page) |-> RawEntry(page[i], shape)]

(***************************************************************************)
(* The history view over drawn histories of at most MaxPage transactions.  *)
(***************************************************************************)
HistoryEntries ==
  {ValidatedOk(BroadcastTx(rB, Memo("", JSONStringify(LogData("m", "info", 1, dB))))),
   ValidatedOk(EscrowCreateTx(rB, 1, rS, "", 1)),
   [tx |-> EscrowCreateTx(rB, 2, rS, "", 1), result |-> "tecUNFUNDED"],
   ValidatedOk(RLUSDPaymentTx(rB, rS, 1))}

GetTransactionHistory ==
  \E agentDID \in {dB, rB, BadId}, limit \in {2, DefaultLogLimit}, shape \in Shapes :
    ReadDone("getTransactionHistory",
             [agentDID |-> agentDID, limit |-> limit, shape |-> shape],
             getTransactionHistory(agentDID,
               RawPage(IF resolveDID(agentDID).ok THEN resolveDID(agentDID).val ELSE NoAddr,
                       limit, shape)))

InitHistory ==
  /\ balance = [a \in Addr |-> DropsPerXrp]
  /\ acctSeq = [a \in Addr |-> MaxPage + 1]
  /\ lines = [a \in Addr |-> TRUE]
  /\ iou = [a \in Addr |-> 1]
  /\ escrows = {}
  /\ ledger \in {Sequenced(h) : h \in UNION {[1..n -> HistoryEntries] : n \in 0..MaxPage}}
  /\ now = MaxStamp + 1
  /\ agentWallets = [d \in {} |-> NoAddr]
  /\ proc = [p \in Procs |-> IdleProc]
  /\ last = IdleProc
  /\ released = <<>>
  /\ calls = [reads |-> 0]

NextHistory == GetTransactionHistory

SpecHistory == InitHistory /\ [][NextHistory]_vars

(***************************************************************************)
(* A negotiation written and read back: an initiateNegotiation, up to      *)
(* MaxReplies counterOffer invocations, and getNegotiation reading the     *)
(* ledger they write.                                                      *)
(***************************************************************************)
\* counterOffer invocations in one behaviour of the dialogue specification
MaxReplies == 1

InitDialogue ==
  /\ balance = [a \in Addr |-> 2 * DropsPerXrp]
  /\ acctSeq = [a \in Addr |-> 1]
  /\ lines = [a \in Addr |-> a = rB]
  /\ iou = [a \in Addr |-> IF a = rB THEN 1 ELSE 0]
  /\ escrows = {}
  /\ ledger = <<>>
  /\ now = 0
  /\ agentWallets = [d \in {} |-> NoAddr]
  /\ proc = [p \in Procs |-> IdleProc]
  /\ last = IdleProc
  /\ released = <<>>
  /\ calls = [initiateNegotiation |-> 0, counterOffer |-> 0, reads |-> 0]

NextDialogue ==
  \/ \E p \in Procs : calls.initiateNegotiation < 1 /\ BeginInitiateNegotiation(p)
  \/ \E p \in Procs : calls.counterOffer < MaxReplies /\ BeginCounterOffer(p)
  \/ \E p \in Procs : FetchNegotiation(p)
  \/ \E p \in Procs : Autofill(p)
  \/ \E p \in Procs : SubmitAndWait(p)
  \/ GetNegotiation
  \/ Tick

SpecDialogue == InitDialogue /\ [][NextDialogue]_vars

(***************************************************************************)
(* Intents published, updated and searched: up to MaxIntents               *)
(* broadcastIntent and MaxUpdates updateIntentStatus invocations, and      *)
(* searchIntents reading the ledger they write.                            *)
(***************************************************************************)
\* broadcastIntent invocations in one behaviour of the intent specification
MaxIntents == 2
\* updateIntentStatus invocations in one behaviour
MaxUpdates == 1

InitIntent ==
  /\ balance = [a \in Addr |-> 2 * DropsPerXrp]
  /\ acctSeq = [a \in Addr |-> 1]
  /\ lines = [a \in Addr |-> a = rB]
  /\ iou = [a \in Addr |-> IF a = rB THEN 1 ELSE 0]
  /\ escrows = {}
  /\ ledger = <<>>
  /\ now = 0
  /\ agentWallets = [d \in {} |-> NoAddr]
  /\ proc = [p \in Procs |-> IdleProc]
  /\ last = IdleProc
  /\ released = <<>>
  /\ calls = [broadcastIntent |-> 0, updateIntentStatus |-> 0, reads |-> 0]

NextIntent ==
  \/ \E p \in Procs : calls.broadcastIntent < MaxIntents /\ BeginBroadcastIntent(p)
  \/ \E p \in Procs : calls.updateIntentStatus < MaxUpdates /\ BeginUpdateIntentStatus(p)
  \/ \E p \in Procs : Autofill(p)
  \/ \E p \in Procs : SubmitAndWait(p)
  \/ SearchIntents
  \/ Tick

SpecIntent == InitIntent /\ [][NextIntent]_vars

(***************************************************************************)
(* Profiles published and read back: up to MaxProfiles updateProfile and   *)
(* MaxRegistrations createAgent invocations, MaxProcs of them at a time,   *)
(* and the reads of the ledger they write.                                 *)
(***************************************************************************)
\* updateProfile invocations in one behaviour
MaxProfiles == 2
\* createAgent invocations in one behaviour of the profile specification
MaxRegistrations == 1
\* last value of the ledger clock in the profile specification
MaxProfileClock == 1

GetProfile ==
  \E agentAddress \in Addr \cup {BadId}, online \in BOOLEAN :
    ReadDone("getProfile", [agentAddress |-> agentAddress, online |-> online],
             getProfile(agentAddress, online))

\* the requirements given to verifyAgent
Requirements ==
  {[minReputation |-> m, requireProfile |-> r] : m \in {0, 10, 20}, r \in BOOLEAN}
    \cup {[minReputation |-> 0, requireProfile |-> r, requiredCapabilities |-> c] :
            r \in BOOLEAN, c \in {<<"a">>, <<"a", "c">>}}

VerifyAgent ==
  \E agentDID \in {dB, dS, BadId}, requirements \in Requirements, down \in SUBSET Checks :
    ReadDone("verifyAgent", [agentDID |-> agentDID, requirements |-> requirements, down |-> down],
             verifyAgent(agentDID, requirements, down))

\* an escrow the buyer account created earlier: its one settlement so far
EarlierEscrow == [EscrowCreateTx(rB, 1, rS, "", 1) EXCEPT !.seq = 1]

InitProfile ==
  /\ balance = [a \in Addr |-> IF a = rB THEN DropsPerXrp ELSE 2 * DropsPerXrp]
  /\ acctSeq = [a \in Addr |-> IF a = rB THEN 2 ELSE 1]
  /\ lines = [a \in Addr |-> a = rB]
  /\ iou = [a \in Addr |-> IF a = rB THEN 1 ELSE 0]
  /\ escrows = {[owner |-> rB, seq |-> 1, amount |-> xrpToDrops(1), dest |-> rS,
                 finishAfter |-> 1, condition |-> "", prevTxn |-> EarlierEscrow]}
  /\ ledger = <<[tx |-> EarlierEscrow, result |-> "tesSUCCESS"]>>
  /\ now = 0
  /\ agentWallets = [d \in {} |-> NoAddr]
  /\ proc = [p \in Procs |-> IdleProc]
  /\ last = IdleProc
  /\ released = <<>>
  /\ calls = [createAgent |-> 0, updateProfile |-> 0, reads |-> 0]

NextProfile ==
  \/ \E p \in Procs : calls.updateProfile < MaxProfiles /\ BeginUpdateProfile(p)
  \/ \E p \in Procs : calls.createAgent < MaxRegistrations /\ BeginCreateAgent(p)
  \/ \E p \in Procs : AgentLines(p)
  \/ \E p \in Procs : StoreWallet(p)
  \/ \E p \in Procs : Autofill(p)
  \/ \E p \in Procs : SubmitAndWait(p)
  \/ GetProfile
  \/ now < MaxProfileClock /\ Tick

SpecProfile == InitProfile /\ [][NextProfile]_vars

(***************************************************************************)
(* Verification: verifyAgent reading a ledger on which up to               *)
(* MaxPublications profiles are published.                                 *)
(***************************************************************************)
\* updateProfile invocations in one behaviour of the verification specification
MaxPublications == 1

NextVerification ==
  \/ \E p \in Procs : calls.updateProfile < MaxPublications /\ BeginUpdateProfile(p)
  \/ \E p \in Procs : Autofill(p)
  \/ \E p \in Procs : SubmitAndWait(p)
  \/ VerifyAgent

SpecVerification == InitProfile /\ [][NextVerification]_vars

(***************************************************************************)
(* The identifier functions of DIDManager, applied to strings built from   *)
(* the DID prefix and short bodies.                                        *)
(***************************************************************************)
\* length of the body of an identifier
MaxIdLen == 3

Bodies == UNION {[1..n -> {"r", "x"}] : n \in 0..MaxIdLen}

\* raw strings, DID forms, doubled prefixes, a prefix that is not at the start, and a
\* prefix cut short
Identifiers ==
  Bodies \cup {DIDPrefix \o b : b \in Bodies}
    \cup {DIDPrefix \o DIDPrefix \o b : b \in Bodies}
    \cup {b \o DIDPrefix : b \in Bodies}
    \cup {SubSeq(DIDPrefix, 1, Len(DIDPrefix) - 1) \o b : b \in Bodies}

\* didManager.resolveDID(id)
ResolveId ==
  \E id \in Identifiers :
    LET r == resolveDID(id)
    IN  ReadDone("resolveDID", [id |-> id],
                 IF r.ok THEN Returned(<<r.val>>) ELSE Failed("InvalidIdentifier"))

\* didManager.createDID(didManager.resolveDID(id))
ResolveThenCreate ==
  \E id \in Identifiers :
    LET r == resolveDID(id)
    IN  ReadDone("resolveThenCreate", [id |-> id],
                 IF r.ok THEN Returned(<<createDID(r.val)>>) ELSE Failed("InvalidIdentifier"))

\* didManager.resolveDID(didManager.createDID(address))
CreateThenResolve ==
  \E address \in Identifiers :
    LET r == resolveDID(createDID(address))
    IN  ReadDone("createThenResolve", [address |-> address],
                 IF r.ok THEN Returned(<<r.val>>) ELSE Failed("InvalidIdentifier"))

InitIdentifier ==
  /\ balance = [a \in Addr |-> DropsPerXrp]
  /\ acctSeq = [a \in Addr |-> 1]
  /\ lines = [a \in Addr |-> TRUE]
  /\ iou = [a \in Addr |-> 0]
  /\ escrows = {}
  /\ ledger = <<>>
  /\ now = 0
  /\ agentWallets = [d \in {} |-> NoAddr]
  /\ proc = [p \in Procs |-> IdleProc]
  /\ last = IdleProc
  /\ released = <<>>
  /\ calls = [reads |-> 0]

NextIdentifier ==
  \/ ResolveId
  \/ ResolveThenCreate
  \/ CreateThenResolve

SpecIdentifier == InitIdentifier /\ [][NextIdentifier]_vars

(***************************************************************************)
(* Properties.  last is the invocation that completed last; every          *)
(* invocation is last at the moment it completes, so an invariant about    *)
(* last is a statement about every completed invocation.                   *)
(***************************************************************************)
NativeTrade == last.op = "initiateTrade" /\ last.token = "XRP" /\ last.checked
IssuedTrade == last.op = "initiateTrade" /\ last.token = "RLUSD" /\ last.checked
\* a fulfillTrade that got a wallet and asked the ledger for the transaction
NativeFulfill == last.op = "fulfillTrade" /\ last.token = "XRP" /\ last.fetched # ""
IssuedFulfill == last.op = "fulfillTrade" /\ last.token = "RLUSD" /\ last.fetched # ""

TypesOf(subs) == [i \in 1..Len(subs) |-> subs[i].type]

C1_WitnessInsufficient ==
  NativeTrade /\ last.err = "InsufficientFunds" /\ last.obs = last.amount * DropsPerXrp

\* hash created an escrow (a validated, successful EscrowCreate)
CreatedEscrow(hash) ==
  \E e \in Validated(hash) : e.tx.type = "EscrowCreate" /\ e.result = "tesSUCCESS"

\* C2: a native fulfillTrade begun after the escrow of its creation hash was released
\* fails with EscrowNotFound; it does not return a hash.
C2_SecondFulfillFails ==
  NativeFulfill /\ last.preReleased => ~last.ok /\ last.err = "EscrowNotFound"

\* C3: a native fulfillTrade whose EscrowFinish reaches the ledger before the escrow's
\* not-before time has elapsed fails with SettlementRejected and leaves the escrow
\* locked; one that reaches it after the time has elapsed (no condition, sequence
\* number unused) returns the hash of a new EscrowFinish, different from the creation
\* hash.
C3_TimeLock ==
  NativeFulfill =>
    /\ last.early =>
         /\ ~last.ok /\ last.err = "SettlementRejected"
         /\ OpenEscrowOf(last.hash.account, last.hash) # {}
    /\ last.releasable =>
         /\ last.ok /\ last.ret # last.hash /\ last.ret.type = "EscrowFinish"
         /\ \E e \in Validated(last.ret) : e.result = "tesSUCCESS"

\* C4: a native fulfillTrade submits an EscrowFinish only if the owner's open escrows
\* held one created by creationHash when it looked the transaction up; when none did,
\* it fails with EscrowNotFound and submits nothing.
C4_FinishOnlyOpenEscrow ==
  NativeFulfill /\ last.fetched # "notFound" /\ last.err # "EscrowLookupFailed" =>
    IF last.openAtFetch THEN TRUE
    ELSE ~last.ok /\ last.err = "EscrowNotFound" /\ last.subs = <<>>

IsSettlement(tx) == tx.type \in {"EscrowCreate", "Payment"}

C5_WitnessNative ==
  /\ last.op = "initiateTrade" /\ last.ok /\ last.token = "XRP"
  /\ TypesOf(last.subs) = <<"EscrowCreate">>

C6_WitnessInsufficient ==
  IssuedTrade /\ last.err = "InsufficientFunds" /\ last.obs < last.amount

\* a step of an RLUSD fulfillTrade leaves the ledger as it was
IssuedFulfillFrame ==
  \A p \in Procs :
    (proc[p].op = "fulfillTrade" /\ proc[p].token = "RLUSD" /\ proc'[p] # proc[p])
      => UNCHANGED ledgerVars

\* the outcome of an RLUSD fulfillTrade
IssuedFulfillOutcome ==
  IssuedFulfill =>
    /\ last.subs = <<>>
    /\ last.fetched = "tesSUCCESS" => last.ok /\ last.ret = last.hash
    /\ last.fetched \notin {"tesSUCCESS", "notFound"} =>
         ~last.ok /\ last.err = "SettlementRejected"
    /\ last.fetched = "notFound" => ~last.ok

C7_WitnessRejected ==
  IssuedFulfill /\ last.err = "SettlementRejected" /\ last.hash.type = "EscrowCreate"

\* C8: a native fulfillTrade whose fetched transaction lacks the owner account or has
\* no sequence number fails with EscrowLookupFailed and submits nothing.
C8_LookupFailed ==
  NativeFulfill /\ last.fetched # "notFound"
    /\ (last.hash.account = NoAddr \/ last.hash.seq = 0)
    => ~last.ok /\ last.err = "EscrowLookupFailed" /\ last.subs = <<>>

C8_Witness ==
  /\ NativeFulfill /\ last.hash = TicketedTx
  /\ last.err = "EscrowLookupFailed" /\ last.subs = <<>>

\* C9: when a native fulfillTrade submits an EscrowFinish for an escrow that has a
\* release condition, the EscrowFinish carries that condition and a fulfillment.
C9_FinishCarriesFulfillment ==
  NativeFulfill /\ last.subs # <<>> /\ last.targetCondition # "" =>
    /\ last.subs[1].condition = last.targetCondition
    /\ last.subs[1].fulfillment # ""

\* an escrow is consumed by at most one successful EscrowFinish
ConsumedOnce ==
  \A i, j \in 1..Len(ledger) :
    /\ ledger[i].tx.type = "EscrowFinish" /\ ledger[i].result = "tesSUCCESS"
    /\ ledger[j].tx.type = "EscrowFinish" /\ ledger[j].result = "tesSUCCESS"
    /\ ledger[i].tx.owner = ledger[j].tx.owner
    /\ ledger[i].tx.offerSeq = ledger[j].tx.offerSeq
    => i = j

\* C10: an escrow is consumed by at most one EscrowFinish, and at most one native
\* fulfillTrade on its creation hash returns a hash.
C10_ReleasedAtMostOnce ==
  /\ ConsumedOnce
  /\ \A i, j \in 1..Len(released) :
       CreatedEscrow(released[i]) /\ released[i] = released[j] => i = j

\* no sequence number of an account is consumed by two validated transactions
SequenceOnce ==
  \A i, j \in 1..Len(ledger) :
    ledger[i].tx.account = ledger[j].tx.account /\ ledger[i].tx.seq = ledger[j].tx.seq
      /\ ledger[i].tx.seq # 0 => i = j

\* C11: a write operation whose transaction reaches the ledger after another
\* transaction of the same account has used the sequence number autofill gave it fails
\* with SettlementRejected, and no sequence number is consumed twice.
C11_SequenceRace ==
  /\ SequenceOnce
  /\ last.pastSeq => ~last.ok /\ last.err = "SettlementRejected"

\* the annotations of the window of account address that are snapshots of negotiation id
SnapshotsOf(id, address) ==
  {a \in Range(Annotations(AccountTx(address, NegotiationLimit))) :
     /\ a.memo.format = "xag:negotiation" /\ a.memo.data.json = "object"
     /\ Get(a.memo.data.obj, "negotiationId", "") = id
     /\ Get(a.memo.data.obj, "history", <<>>) # <<>>}

SnapshotTime(a) == a.memo.data.obj.history[Len(a.memo.data.obj.history)].timestamp.iso

\* C13: getNegotiation returns none when the scanned history holds no snapshot of the
\* negotiation id; when it holds snapshots with pairwise different timestamps, it
\* returns the one with the greatest timestamp, whatever the order of the history.
C13_LatestSnapshotWins ==
  last.op = "getNegotiation" /\ last.ok =>
    LET snaps == SnapshotsOf(last.args.negotiationId, resolveDID(last.args.participantDID).val)
    IN  IF snaps = {} THEN last.result = <<>>
        ELSE (\A a, b \in snaps : a # b => SnapshotTime(a) # SnapshotTime(b)) =>
               /\ Len(last.result) = 1
               /\ \E a \in snaps :
                    /\ \A b \in snaps : SnapshotTime(b) <= SnapshotTime(a)
                    /\ last.result[1].negotiationId = last.args.negotiationId
                    /\ last.result[1].history[Len(last.result[1].history)].txHash = a.tx
                    /\ last.result[1].history[Len(last.result[1].history)].timestamp.iso
                         = SnapshotTime(a)

\* three snapshots whose latest is neither the newest nor the oldest transaction
C13_Witness ==
  /\ last.op = "getNegotiation" /\ last.ok /\ Len(last.result) = 1
  /\ Cardinality(SnapshotsOf(last.args.negotiationId, rB)) = 3
  /\ Len(ledger) = 3
  /\ last.result[1].history[1].txHash = ledger[2].tx
  /\ last.result[1].history[1].timestamp.iso = MaxStamp

C13_WitnessNone ==
  /\ last.op = "getNegotiation" /\ last.ok /\ last.result = <<>>
  /\ last.args.negotiationId = "n2"
  /\ SnapshotsOf("n1", rB) # {}

\* the annotations of the scanned window, in the order of the scan
Window(address, limit) == Annotations(AccountTx(address, limit))

\* how many annotations of the window satisfy P
HowMany(anns, P(_)) == Len(SelectSeq(anns, P))

\* a log envelope: a decodable payload with a message and a level
WellFormedLog(a) ==
  a.memo.data.json = "object" /\ Truthy(a.memo.data.obj, "message")
    /\ Truthy(a.memo.data.obj, "level")

\* an intent-tagged envelope with a decodable payload that passes the filters
MatchingIntent(a, criteria) ==
  /\ a.memo.format = "xag:intent" /\ a.memo.data.json = "object"
  /\ criteria.type # "" => Get(a.memo.data.obj, "type", "") = criteria.type
  /\ criteria.category # "" => Get(a.memo.data.obj, "category", "") = criteria.category

\* the embedded timestamp of a returned item
Stamp(item) == item.timestamp.iso

Descending(result) ==
  \A i, j \in 1..Len(result) : i < j => Stamp(result[i]) >= Stamp(result[j])

\* C16: getLogs returns its entries sorted by embedded timestamp, newest first,
\* whatever the order of the account history.
C16_LogsNewestFirst == last.op = "getLogs" /\ last.ok => Descending(last.result)

\* three logs with timestamps 2, 3, 1 in ledger order are returned as 3, 2, 1
C16_Witness ==
  /\ last.op = "getLogs" /\ last.ok /\ Len(last.result) = 3 /\ Len(ledger) = 3
  /\ \A i \in 1..3 : Len(ledger[i].tx.memos) = 1 /\ ledger[i].tx.memos[1].format = ""
       /\ ledger[i].tx.memos[1].data.json = "object"
  /\ [i \in 1..3 |-> Get(ledger[i].tx.memos[1].data.obj, "timestamp", toISOString(0)).iso]
       = <<2, 3, 1>>
  /\ [i \in 1..3 |-> Stamp(last.result[i])] = <<3, 2, 1>>
  /\ [i \in 1..3 |-> last.result[i].txHash] = <<ledger[2].tx, ledger[1].tx, ledger[3].tx>>

\* the scan of a valid identifier
ScanOfValid ==
  /\ last.op \in {"getLogs", "searchIntents", "getNegotiation"}
  /\ \/ last.op = "getLogs" /\ resolveDID(last.args.agentDID).ok
     \/ last.op = "searchIntents" /\ last.args.agentDID # NoAddr
          /\ resolveDID(last.args.agentDID).ok
     \/ last.op = "getNegotiation" /\ resolveDID(last.args.participantDID).ok

\* C17: a scan of a valid identifier never fails, whatever annotations the history
\* holds, and every well-formed matching envelope of the window is returned: every log
\* by getLogs, every matching intent by searchIntents, and a snapshot by getNegotiation
\* when the window holds one.
C17_UndecodableSkipped ==
  /\ ScanOfValid => last.ok
  /\ ScanOfValid /\ last.op = "getLogs" =>
       LET w == Window(resolveDID(last.args.agentDID).val, last.args.limit)
       IN  /\ Len(last.result) = HowMany(w, WellFormedLog)
           /\ \A k \in 1..Len(w) : WellFormedLog(w[k]) =>
                \E i \in 1..Len(last.result) :
                  /\ last.result[i].txHash = w[k].tx
                  /\ last.result[i].message = w[k].memo.data.obj.message
                  /\ last.result[i].level = w[k].memo.data.obj.level
  /\ ScanOfValid /\ last.op = "searchIntents" =>
       LET w == Window(resolveDID(last.args.agentDID).val,
                       IF last.args.limit = 0 THEN DefaultIntentLimit ELSE last.args.limit)
       IN  \A k \in 1..Len(w) : MatchingIntent(w[k], last.args) =>
             \E i \in 1..Len(last.result) :
               last.result[i] = Assign(w[k].memo.data.obj, "txHash", w[k].tx)
  /\ ScanOfValid /\ last.op = "getNegotiation" =>
       (SnapshotsOf(last.args.negotiationId, resolveDID(last.args.participantDID).val) # {}
          => Len(last.result) = 1)

\* a transaction with an undecodable memo and a log: the log is returned
C17_Witness ==
  /\ last.op = "getLogs" /\ last.ok
  /\ \E e \in Range(ledger) :
       /\ Len(e.tx.memos) = 2 /\ e.tx.memos[1].data.json = "garbage"
       /\ e.tx.memos[2].format = ""
       /\ \E i \in 1..Len(last.result) : last.result[i].txHash = e.tx

\* an undecodable intent-tagged memo next to a returned intent
C17_WitnessIntent ==
  /\ last.op = "searchIntents" /\ last.ok /\ Len(last.result) = 1
  /\ \E e \in Range(ledger) : e.tx.memos = <<Memo("xag:intent", Garbage)>>

TypeTags == {"xag:intent", "xag:intent:update", "xag:negotiation"}

\* the memos of the transaction an item was taken from
MemosOf(item) == Range(item.txHash.memos)

\* C18: each scan selects by the type tag: every entry getLogs returns comes from a
\* memo that is not tagged as an intent, an intent update or a negotiation; every
\* intent searchIntents returns comes from an intent-tagged memo; the snapshot
\* getNegotiation returns comes from a negotiation-tagged memo.
C18_ScansSelectByTag ==
  /\ last.op = "getLogs" /\ last.ok =>
       \A i \in 1..Len(last.result) :
         \E m \in MemosOf(last.result[i]) :
           /\ m.format \notin TypeTags
           /\ m.data.json = "object" /\ Get(m.data.obj, "message", "") = last.result[i].message
  /\ last.op = "searchIntents" /\ last.ok =>
       \A i \in 1..Len(last.result) :
         \E m \in MemosOf(last.result[i]) :
           m.format = "xag:intent" /\ m.data.json = "object"
             /\ Assign(m.data.obj, "txHash", last.result[i].txHash) = last.result[i]
  /\ last.op = "getNegotiation" /\ last.ok =>
       \A i \in 1..Len(last.result) :
         \E m \in Range(last.result[i].history[Len(last.result[i].history)].txHash.memos) :
           m.format = "xag:negotiation" /\ m.data.json = "object"
             /\ m.data.obj.negotiationId = last.result[i].negotiationId

\* the intent and negotiation scans do select by tag
C18_TaggedScans ==
  last.op = "getLogs" \/ C18_ScansSelectByTag

\* C19: searchIntents for an account returns exactly the intent-tagged envelopes of
\* the window that pass the type and category filters, each once, newest first.
C19_SearchIntentsExact ==
  last.op = "searchIntents" /\ last.ok /\ last.args.agentDID # NoAddr =>
    LET w == Window(resolveDID(last.args.agentDID).val,
                    IF last.args.limit = 0 THEN DefaultIntentLimit ELSE last.args.limit)
        matching(a) == MatchingIntent(a, last.args)
    IN  /\ Len(last.result) = HowMany(w, matching)
        /\ \A k \in 1..Len(w) : matching(w[k]) =>
             Cardinality({i \in 1..Len(last.result) :
                            last.result[i] = Assign(w[k].memo.data.obj, "txHash", w[k].tx)}) = 1
        /\ \A i \in 1..Len(last.result) :
             \E k \in 1..Len(w) :
               matching(w[k]) /\ last.result[i] = Assign(w[k].memo.data.obj, "txHash", w[k].tx)
        /\ Descending(last.result)

\* a filtered search over a history with a matching and a non-matching intent and a log
C19_Witness ==
  /\ last.op = "searchIntents" /\ last.ok /\ last.args.type = "offer"
  /\ last.args.category = "a" /\ Len(last.result) = 1 /\ Len(ledger) = 3
  /\ \E e \in Range(ledger) : e.tx.memos # <<>> /\ e.tx.memos[1].format = "xag:intent"
       /\ e.tx.memos[1].data.json = "object" /\ e.tx.memos[1].data.obj.type = "request"
  /\ \E e \in Range(ledger) : e.tx.memos # <<>> /\ e.tx.memos[1].format = ""

\* a limited search whose window leaves an intent of the history out
C19_WitnessLimit ==
  /\ last.op = "searchIntents" /\ last.ok /\ last.args.limit = 2 /\ Len(ledger) = 3
  /\ Len(last.result) = 2
  /\ ledger[1].tx.memos # <<>> /\ ledger[1].tx.memos[1].format = "xag:intent"
  /\ ledger[1].tx.memos[1].data.json = "object"

\* the transactions of a type in the window of getReputation
OfType(address, type) ==
  SelectSeq(AccountTx(address, ReputationLimit), LAMBDA e : e.tx.type = type)

AllSucceeded(address) ==
  \A e \in Range(AccountTx(address, ReputationLimit)) : e.result = "tesSUCCESS"

\* C20: getReputation returns successfulTrades = escrowCreates + escrowFinishes +
\* payments and score = successfulTrades * 10; over a window whose transactions all
\* succeeded the three counts are the numbers of escrow creations, of escrow
\* finishes and of RLUSD payments of the window.
C20_ReputationCounts ==
  last.op = "getReputation" /\ last.ok =>
    LET r == last.result[1]
        address == resolveDID(last.args.did).val
    IN  /\ r.successfulTrades = r.escrowCreates + r.escrowFinishes + r.payments
        /\ r.score = (r.escrowCreates + r.escrowFinishes + r.payments) * 10
        /\ AllSucceeded(address) =>
             /\ r.escrowCreates = Len(OfType(address, "EscrowCreate"))
             /\ r.escrowFinishes = Len(OfType(address, "EscrowFinish"))
             /\ r.payments = Len(SelectSeq(OfType(address, "Payment"),
                                           LAMBDA e : e.tx.currency = "RLUSD"))

\* one escrow creation, one escrow finish and one RLUSD payment: score 30
C20_Witness ==
  /\ last.op = "getReputation" /\ last.ok /\ AllSucceeded(rB)
  /\ last.result[1].escrowCreates = 1 /\ last.result[1].escrowFinishes = 1
  /\ last.result[1].payments = 1 /\ last.result[1].successfulTrades = 3
  /\ last.result[1].score = 30

\* broadcasts are payments that do not count
C20_WitnessBroadcast ==
  /\ last.op = "getReputation" /\ last.ok /\ AllSucceeded(rB) /\ Len(ledger) = 3
  /\ last.result[1].payments = 1 /\ last.result[1].score = 10
  /\ \A e \in Range(ledger) : e.tx.type = "Payment"

\* a transaction without the sequence number autofill gave it
Unsequenced(tx) == [tx EXCEPT !.seq = 0]

\* no transaction of the invocation was submitted twice
SubmittedOnce(c) ==
  \A i, j \in 1..Len(c.subs) : Unsequenced(c.subs[i]) = Unsequenced(c.subs[j]) => i = j

\* the invocation is not preparing a transaction it has submitted before
NotResubmitting(c) ==
  c.pc \in {"autofill", "submit"} =>
    \A i \in 1..Len(c.subs) : Unsequenced(c.subs[i]) # Unsequenced(c.tx)

\* the last submission of the completed invocation was not validated
LastSubmissionRejected(c) == c.subs # <<>> /\ Validated(c.subs[Len(c.subs)]) = {}

\* C12: no write operation submits a transaction twice in one invocation, and an
\* invocation whose submission is rejected ends with the failure: it prepares no
\* transaction again and returns no success.
C12_NoRetry ==
  /\ SubmittedOnce(last) /\ Len(last.subs) <= 2
  /\ \A p \in Procs : SubmittedOnce(proc[p]) /\ NotResubmitting(proc[p])
  /\ LastSubmissionRejected(last) => ~last.ok /\ last.err = "SettlementRejected"

\* a broadcast that lost the race for the sequence number failed after one submission
C12_Witness ==
  /\ last.op \in {"log", "broadcastIntent", "initiateNegotiation", "counterOffer"}
  /\ LastSubmissionRejected(last) /\ Len(last.subs) = 1
  /\ ~last.ok /\ last.err = "SettlementRejected"

\* a trade whose transaction the ledger refused failed after one submission
C12_WitnessTrade ==
  /\ last.op = "initiateTrade" /\ LastSubmissionRejected(last) /\ Len(last.subs) = 1
  /\ ~last.ok /\ last.err = "SettlementRejected"

\* the ledger entries that carry a snapshot of negotiation id
SnapshotIndices(h, id) ==
  {i \in 1..Len(h) :
     /\ h[i].tx.memos # <<>> /\ h[i].tx.memos[1].format = "xag:negotiation"
     /\ h[i].tx.memos[1].data.json = "object"
     /\ h[i].tx.memos[1].data.obj.negotiationId = id}

SnapshotAt(h, i) == h[i].tx.memos[1].data.obj

\* the current snapshot: the latest last step, and of those the latest transaction
CurrentIndex(h, id) ==
  CHOOSE i \in SnapshotIndices(h, id) :
    \A j \in SnapshotIndices(h, id) :
      \/ LastStepTime(SnapshotAt(h, j)) < LastStepTime(SnapshotAt(h, i))
      \/ LastStepTime(SnapshotAt(h, j)) = LastStepTime(SnapshotAt(h, i)) /\ j <= i

\* new is old with at least one more step
Extends(new, old) == Len(new) > Len(old) /\ SubSeq(new, 1, Len(old)) = old

\* the step validates a snapshot of a negotiation that has a snapshot already
NewSnapshot(id) ==
  /\ Len(ledger') = Len(ledger) + 1
  /\ Len(ledger') \in SnapshotIndices(ledger', id)
  /\ SnapshotIndices(ledger, id) # {}

\* C14: every newly broadcast snapshot of a negotiation has a history that extends
\* the history of the snapshot that was current before it.
C14_HistoryGrows ==
  [][\A id \in Range(NegotiationIds) :
       NewSnapshot(id) =>
         Extends(SnapshotAt(ledger', Len(ledger')).history,
                 SnapshotAt(ledger, CurrentIndex(ledger, id)).history)]_vars

\* C15: a new snapshot of a negotiation is broadcast only while the current snapshot
\* is initiated or counter-offer and no snapshot is accepted or rejected, and its
\* status is counter-offer, accepted or rejected.
C15_StatusTransitions ==
  [][\A id \in Range(NegotiationIds) :
       NewSnapshot(id) =>
         /\ SnapshotAt(ledger, CurrentIndex(ledger, id)).status
              \in {"initiated", "counter-offer"}
         /\ \A i \in SnapshotIndices(ledger, id) :
              SnapshotAt(ledger, i).status \notin {"accepted", "rejected"}
         /\ SnapshotAt(ledger', Len(ledger')).status
              \in {"counter-offer", "accepted", "rejected"}]_vars

\* the successful transactions of a type in the window of getReputation
SucceededOfType(address, type) ==
  SelectSeq(OfType(address, type), LAMBDA e : e.result = "tesSUCCESS")

\* C21: getReputation counts only transactions validated with a successful result:
\* escrow creations, escrow finishes and RLUSD payments; a transaction with a failure
\* result and a payment in another asset count nothing.
C21_OnlySuccessfulCounted ==
  last.op = "getReputation" /\ last.ok =>
    LET r == last.result[1]
        address == resolveDID(last.args.did).val
    IN  /\ r.escrowCreates = Len(SucceededOfType(address, "EscrowCreate"))
        /\ r.escrowFinishes = Len(SucceededOfType(address, "EscrowFinish"))
        /\ r.payments = Len(SelectSeq(SucceededOfType(address, "Payment"),
                                      LAMBDA e : e.tx.currency = "RLUSD"))

\* the half of C21 about payments in another asset
C21_OtherPaymentsNotCounted ==
  last.op = "getReputation" /\ last.ok =>
    last.result[1].payments
      <= Len(SelectSeq(OfType(resolveDID(last.args.did).val, "Payment"),
                       LAMBDA e : e.tx.currency = "RLUSD"))

\* the result the claim gives resolve(id): the rest after the prefix, id itself when
\* it starts with r, a failure otherwise
ResolveContract ==
  last.op = "resolveDID" =>
    IF StartsWith(last.args.id, DIDPrefix)
      THEN last.ok /\ DIDPrefix \o last.result[1] = last.args.id
    ELSE IF last.args.id # <<>> /\ Head(last.args.id) = "r"
      THEN last.ok /\ last.result[1] = last.args.id
    ELSE ~last.ok /\ last.err = "InvalidIdentifier"

\* the identifiers a completed write operation was given
IdentifiersOf(c) ==
  CASE c.op \in {"initiateTrade"} -> {c.buyer} \cup (IF c.seller = NoAddr THEN {} ELSE {c.seller})
    [] c.op = "fulfillTrade" -> {c.seller}
    [] c.op \in {"log", "broadcastIntent"} -> {c.args.agentDID}
    [] c.op = "initiateNegotiation" -> {c.args.initiatorDID, c.args.participantDID}
    [] c.op = "counterOffer" -> {c.args.responderDID}
    [] OTHER -> {}

\* the identifiers the operation signs for, i.e. all but the participant of a negotiation
SignerIdentifiersOf(c) ==
  IF c.op = "initiateNegotiation" THEN {c.args.initiatorDID} ELSE IdentifiersOf(c)

\* C22: a write operation that is given an invalid identifier fails and has submitted
\* nothing.
C22_InvalidIdentifierFailsFast ==
  (\E id \in IdentifiersOf(last) : ~resolveDID(id).ok) => ~last.ok /\ last.subs = <<>>

\* the same for the identifiers the operations do resolve
C22_SignerIdentifiers ==
  (\E id \in SignerIdentifiersOf(last) : ~resolveDID(id).ok) => ~last.ok /\ last.subs = <<>>

\* the canonical DID form of an identifier
Canonical(id) == IF StartsWith(id, DIDPrefix) THEN id ELSE DIDPrefix \o id

\* C23: for every identifier resolveDID accepts, createDID(resolveDID(id)) is the
\* canonical DID form of id, and resolveDID(createDID(a)) = a for every string a.
C23_RoundTrip ==
  /\ last.op = "resolveThenCreate" /\ last.ok => last.result[1] = Canonical(last.args.id)
  /\ last.op = "createThenResolve" => last.ok /\ last.result[1] = last.args.address

\* a raw identifier comes back in DID form
C23_Witness ==
  /\ last.op = "resolveThenCreate" /\ last.ok /\ last.args.id = <<"r", "x">>
  /\ last.result[1] = DIDPrefix \o <<"r", "x">>

\* an address that itself contains the prefix comes back unchanged
C23_WitnessNested ==
  /\ last.op = "createThenResolve" /\ last.ok
  /\ last.args.address = DIDPrefix \o <<"r">> /\ last.result[1] = last.args.address

\* the identifier names an agent this instance has created
NamesAgent(id) ==
  resolveDID(id).ok /\ createDID(resolveDID(id).val) \in DOMAIN agentWallets

\* C24: createAgent succeeds although the registration of the DID or the creation of
\* the trust line failed: it returns the agent (address, seed, DID) and the instance
\* holds the agent's wallet under its DID.
C24_DegradedAgent ==
  last.op = "createAgent" =>
    /\ last.ok
    /\ Len(last.result) = 1
    /\ LET a == last.result[1]
       IN  /\ a.seed = last.args.seed
           /\ a.address = fromSeed(a.seed)
           /\ a.did = createDID(a.address)
           /\ a.did \in DOMAIN agentWallets
           /\ agentWallets[a.did] = a.address

\* a createAgent whose DID registration was rejected has returned
C24_Witness ==
  last.op = "createAgent" /\ last.ok /\ last.args.didHash = NoTx

\* a createAgent whose trust line could not be created has returned
C24_WitnessTrustLine ==
  last.op = "createAgent" /\ last.ok /\ last.args.trustLine = "failed"

\* C25: an operation that names, by DID or by raw address and without a seed, an
\* agent this instance has created finds the agent's wallet.
C25_AgentWalletFound ==
  /\ last.op = "log" /\ NamesAgent(last.args.agentDID) => last.err # "WalletNotFound"
  /\ last.op = "initiateTrade" /\ NamesAgent(last.buyer) => last.err # "WalletNotFound"
  /\ last.op = "fulfillTrade" /\ NamesAgent(last.seller) => last.err # "WalletNotFound"

\* the part of C25 that holds: an agent named by its DID is found
C25_FoundByDID ==
  /\ last.op = "log" /\ last.args.agentDID \in DOMAIN agentWallets
       => last.err # "WalletNotFound"
  /\ last.op = "initiateTrade" /\ last.buyer \in DOMAIN agentWallets
       => last.err # "WalletNotFound"
  /\ last.op = "fulfillTrade" /\ last.seller \in DOMAIN agentWallets
       => last.err # "WalletNotFound"

BroadcastOps == {"log", "broadcastIntent", "initiateNegotiation", "counterOffer"}

\* what a broadcast submits: at most one transaction, a payment of 1 drop to the sink
\* with one annotation
BroadcastShape ==
  last.op \in BroadcastOps =>
    /\ Len(last.subs) <= 1
    /\ \A i \in 1..Len(last.subs) :
         LET tx == last.subs[i]
         IN  /\ tx.type = "Payment" /\ tx.currency = "XRP" /\ tx.amount = 1
             /\ tx.dest = Sink /\ tx.account \in Addr /\ Len(tx.memos) = 1

\* C26: every broadcast submits one payment of 1 drop from the signer's account to the
\* sink with one annotation, and every broadcast that succeeds was accepted as a new
\* transaction of its own: none is met by an earlier transaction of the account.
C26_DistinctBroadcasts ==
  /\ BroadcastShape
  /\ last.op \in BroadcastOps /\ last.ok => Len(last.subs) = 1 /\ ~last.pastSeq

\* the log transactions of the account named by agentDID that the window of the last
\* getLogs covers and that satisfy P
LogsInWindow(P(_)) ==
  LET address == resolveDID(last.args.agentDID).val
  IN  {a \in Range(Window(address, last.args.limit)) : a.tx.account = address /\ P(a)}

\* getLogs returned an entry for annotation a
ReadBack(a) == \E i \in 1..Len(last.result) : last.result[i].txHash = a.tx

\* C27: reads are not cached: every log whose submission returned a hash is in the
\* result of a later getLogs of that account whose window covers its transaction.
C27_LogsAreRead ==
  last.op = "getLogs" /\ last.ok => \A a \in LogsInWindow(LAMBDA a : TRUE) : ReadBack(a)

\* the part of C27 that holds: logs with a non-empty message and level are read back
C27_WellFormedLogsAreRead ==
  last.op = "getLogs" /\ last.ok => \A a \in LogsInWindow(WellFormedLog) : ReadBack(a)

\* a getLogs read back a log written before it
C27_WitnessReadBack ==
  last.op = "getLogs" /\ last.ok /\ LogsInWindow(WellFormedLog) # {}

\* C28: getTransactionHistory returns one entry per transaction of the raw page, in
\* the order of the page: the hash of the transaction, its kind and outcome ('Unknown'
\* when the raw entry has none) and its time when the raw entry carries one.
C28_HistoryOneToOne ==
  last.op = "getTransactionHistory" /\ last.ok =>
    LET page == AccountTx(resolveDID(last.args.agentDID).val, last.args.limit)
        shape == last.args.shape
    IN  /\ Len(last.result) = Len(page)
        /\ \A i \in 1..Len(page) :
             /\ last.result[i].hash = page[i].tx
             /\ last.result[i].type = IF shape.typed THEN page[i].tx.type ELSE "Unknown"
             /\ last.result[i].result = IF shape.meta THEN page[i].result ELSE "Unknown"
             /\ last.result[i].timestamp =
                  IF shape.dated /\ shape.wrap = "tx"
                    THEN [unix |-> page[i].tx.seq + RippleEpoch]
                  ELSE NoTimestamp

\* a history of several transactions was mapped from entries without kind and outcome
C28_Witness ==
  /\ last.op = "getTransactionHistory" /\ last.ok /\ Len(last.result) > 1
  /\ ~last.args.shape.typed /\ ~last.args.shape.meta
  /\ \A i \in 1..Len(last.result) :
       last.result[i].type = "Unknown" /\ last.result[i].result = "Unknown"

\* a history was cut to the limit and mapped with kinds, outcomes and times
C28_WitnessFull ==
  /\ last.op = "getTransactionHistory" /\ last.ok
  /\ Len(last.result) = 2 /\ Len(ledger) = 3
  /\ last.result[1].timestamp # NoTimestamp /\ last.result[1].result = "tecUNFUNDED"

\* C29: the sequence a native trade returns is the sequence number of its EscrowCreate,
\* and fulfillTrade puts the account and the sequence number of the transaction named
\* by the hash into Owner and OfferSequence of the EscrowFinish; a trade on the payment
\* path returns sequence 0.
C29_ReturnedSequence ==
  /\ last.op = "initiateTrade" /\ last.ok /\ ~IsPaymentPath(last.token) =>
       /\ last.ret.type = "EscrowCreate" /\ last.sequence = last.ret.seq
       /\ \E i \in 1..Len(ledger) : ledger[i].tx = last.ret
  /\ last.op = "initiateTrade" /\ last.ok /\ IsPaymentPath(last.token) =>
       last.ret.type = "Payment" /\ last.sequence = 0
  /\ last.op = "fulfillTrade" /\ ~IsPaymentPath(last.token) =>
       \A i \in 1..Len(last.subs) :
         /\ last.subs[i].type = "EscrowFinish"
         /\ last.subs[i].owner = last.hash.account
         /\ last.subs[i].offerSeq = last.hash.seq
  /\ \A p \in Procs :
       proc[p].op = "fulfillTrade" /\ proc[p].tx.type = "EscrowFinish" =>
         proc[p].tx.owner = proc[p].hash.account /\ proc[p].tx.offerSeq = proc[p].hash.seq

\* a fulfillTrade has submitted the EscrowFinish of an escrow created by a trade
C29_Witness ==
  /\ last.op = "fulfillTrade" /\ last.ok /\ ~IsPaymentPath(last.token)
  /\ Len(last.subs) = 1 /\ last.hash.type = "EscrowCreate"
  /\ last.subs[1].offerSeq = last.hash.seq /\ last.hash.seq > 0

\* a native trade and a trade on the payment path have returned their sequences
C29_WitnessNative ==
  last.op = "initiateTrade" /\ last.ok /\ ~IsPaymentPath(last.token) /\ last.sequence > 0

C29_WitnessPayment ==
  last.op = "initiateTrade" /\ last.ok /\ IsPaymentPath(last.token) /\ last.sequence = 0

\* C30: in initiateTrade the account whose balance is checked and that is reported as
\* buyer (the account the buyer identifier resolves to) is the account of every
\* transaction the trade submits.
C30_OneBuyerAccount ==
  last.op = "initiateTrade" /\ last.checked =>
    \A i \in 1..Len(last.subs) : last.subs[i].account = resolveDID(last.buyer).val

\* C31: a fulfillTrade on the payment path succeeds only if the hash names a payment of
\* the issued asset to the account of the seller it was called for.
C31_PaymentProof ==
  last.op = "fulfillTrade" /\ last.ok /\ IsPaymentPath(last.token) =>
    /\ last.hash.type = "Payment" /\ last.hash.currency = "RLUSD"
    /\ last.hash.dest = resolveDID(last.seller).val

\* the part of C31 that holds: the hash names a validated transaction with result
\* tesSUCCESS
C31_ProofSucceeded ==
  last.op = "fulfillTrade" /\ last.ok /\ IsPaymentPath(last.token) =>
    \E i \in 1..Len(ledger) : ledger[i].tx = last.hash /\ ledger[i].result = "tesSUCCESS"

\* the snapshots of negotiation id on the ledger, whoever broadcast them
SnapshotsOnLedger(id) ==
  {m.data.obj : m \in {m \in UNION {Range(ledger[i].tx.memos) : i \in 1..Len(ledger)} :
                        /\ m.format = "xag:negotiation" /\ m.data.json = "object"
                        /\ Get(m.data.obj, "negotiationId", "") = id}}

\* the participants of negotiation id whose identifier resolves
ParticipantsOf(id) ==
  {d \in UNION {Range(n.participants) : n \in SnapshotsOnLedger(id)} : resolveDID(d).ok}

\* C32: getNegotiation(id, P) returns the same snapshot for every participant P of
\* negotiation id.
C32_SameSnapshotForAll ==
  last.op = "getNegotiation" /\ last.ok =>
    \A d \in ParticipantsOf(last.args.negotiationId) :
      getNegotiation(last.args.negotiationId, d).result = last.result

\* the part of C32 that holds: a participant that reads its own account gets a snapshot
\* of the negotiation that one of its own transactions holds
C32_OwnSnapshots ==
  last.op = "getNegotiation" /\ last.ok /\ last.result # <<>> =>
    \E i \in 1..Len(ledger) :
      /\ ledger[i].tx.account = resolveDID(last.args.participantDID).val
      /\ ledger[i].tx = last.result[1].history[Len(last.result[1].history)].txHash

\* the snapshot a counterOffer read from the transaction it was given
SnapshotRead(c) == FirstNegotiation(c.hash.memos).obj

\* C33: a counterOffer broadcasts a snapshot only when responderDID is a participant of
\* the negotiation it read and the transaction is signed by the responder's account.
C33_OnlyParticipants ==
  last.op = "counterOffer" /\ last.subs # <<>> =>
    /\ last.args.responderDID \in Range(SnapshotRead(last).participants)
    /\ last.subs[1].account = resolveDID(last.args.responderDID).val

\* a validated update of the account of the last search marks the intent of
\* transaction hash as fulfilled or cancelled
Superseded(hash) ==
  \E i \in 1..Len(ledger) :
    /\ ledger[i].tx.account = resolveDID(last.args.agentDID).val
    /\ \E m \in Range(ledger[i].tx.memos) :
         /\ m.format = "xag:intent:update" /\ m.data.json = "object"
         /\ m.data.obj.intentHash = hash
         /\ m.data.obj.status \in {"fulfilled", "cancelled"}

\* C34: after an updateIntentStatus for an intent has been validated, searchIntents
\* over the account no longer reports that intent with status 'active'.
C34_UpdatesSupersede ==
  last.op = "searchIntents" /\ last.ok /\ last.args.agentDID # NoAddr =>
    \A i \in 1..Len(last.result) :
      Superseded(last.result[i].txHash) => last.result[i].status # "active"

\* the part of C34 that holds: an update is a new transaction and the intent it names
\* stays on the ledger as it was published
C34_NeverMutated ==
  last.op = "searchIntents" /\ last.ok /\ last.args.agentDID # NoAddr =>
    \A i \in 1..Len(last.result) :
      \E m \in Range(last.result[i].txHash.memos) :
        m.format = "xag:intent" /\ Assign(m.data.obj, "txHash", last.result[i].txHash)
                                     = last.result[i]

\* C35: what resolveDID returns is a raw account reference: it does not start with the
\* DID prefix, resolveDID accepts it, and resolving it again leaves it unchanged.
C35_ResolvedIsRaw ==
  last.op = "resolveDID" /\ last.ok =>
    /\ ~StartsWith(last.result[1], DIDPrefix)
    /\ resolveDID(last.result[1]).ok
    /\ resolveDID(last.result[1]).val = last.result[1]

\* the part of C35 that holds: an identifier that is a raw account reference, or the
\* prefix followed by one, resolves to that raw account reference
C35_RawStaysRaw ==
  last.op = "resolveDID" /\ last.ok /\ StartsWith(last.result[1], <<"r">>) =>
    /\ ~StartsWith(last.result[1], DIDPrefix)
    /\ resolveDID(last.result[1]) = [ok |-> TRUE, val |-> last.result[1]]

\* transaction tx holds a negotiation envelope of negotiation id
HoldsEnvelope(tx, id) ==
  \E m \in Range(tx.memos) :
    /\ m.format = "xag:negotiation" /\ m.data.json = "object"
    /\ Get(m.data.obj, "negotiationId", "") = id

\* C36: the snapshot a counterOffer broadcasts has the negotiationId and the
\* participants of the snapshot it read and that snapshot's history with one step
\* appended; its currentOffer is a new one when the action is counter with terms given
\* and the old one otherwise.  A counterOffer whose transaction holds no envelope of the
\* negotiation fails with 'Negotiation not found' and submits nothing.
C36_CounterOfferFrame ==
  last.op = "counterOffer" =>
    /\ last.subs # <<>> =>
         LET old == SnapshotRead(last)
             new == last.subs[1].memos[1].data.obj
             n == Len(old.history)
         IN  /\ new.negotiationId = old.negotiationId
             /\ new.participants = old.participants
             /\ Len(new.history) = n + 1 /\ SubSeq(new.history, 1, n) = old.history
             /\ new.history[n + 1].action = last.args.action
             /\ new.history[n + 1].from = last.args.responderDID
             /\ IF last.args.action = "counter" /\ last.args.counterTerms # ""
                  THEN /\ new.currentOffer.terms = last.args.counterTerms
                       /\ new.currentOffer.from = last.args.responderDID
                       /\ new.currentOffer.to = old.currentOffer.from
                ELSE new.currentOffer = old.currentOffer
    /\ last.fetched \notin {"", "notFound"}
         /\ ~HoldsEnvelope(last.hash, last.args.negotiationId)
       => ~last.ok /\ last.err = "NegotiationNotFound" /\ last.subs = <<>>

\* a counterOffer with new terms has replaced the offer of the snapshot it read
C36_Witness ==
  /\ last.op = "counterOffer" /\ last.ok /\ last.subs # <<>>
  /\ last.args.action = "counter" /\ last.args.counterTerms # ""
  /\ last.subs[1].memos[1].data.obj.currentOffer # SnapshotRead(last).currentOffer

\* an accepting counterOffer has kept the offer
C36_WitnessAccept ==
  /\ last.op = "counterOffer" /\ last.ok /\ last.subs # <<>>
  /\ last.args.action = "accept"
  /\ last.subs[1].memos[1].data.obj.currentOffer = SnapshotRead(last).currentOffer

\* a counterOffer was given a transaction without an envelope of the negotiation
C36_WitnessNotFound ==
  /\ last.op = "counterOffer" /\ last.err = "NegotiationNotFound"
  /\ last.hash.memos # <<>> /\ last.subs = <<>>

\* the snapshots that initiateNegotiation and counterOffer have broadcast or are about
\* to broadcast
BroadcastSnapshots ==
  {m.data.obj :
     m \in {m \in UNION ({Range(ledger[i].tx.memos) : i \in 1..Len(ledger)}
                          \cup {Range(proc[p].tx.memos) : p \in Procs}) :
              m.format = "xag:negotiation" /\ m.data.json = "object"}}

\* the status that goes with a history step
StatusOf(step) ==
  CASE step.action = "offer" -> "initiated"
    [] step.action = "counter" -> "counter-offer"
    [] step.action = "accept" -> "accepted"
    [] step.action = "reject" -> "rejected"

\* C37: in every snapshot broadcast by initiateNegotiation or counterOffer the status
\* is the one of the last history step, 'offer' is the action of the first step and of
\* no other, and the steps are numbered 1..n in order.
C37_StatusMatchesHistory ==
  \A n \in BroadcastSnapshots :
    /\ n.history # <<>>
    /\ n.status = StatusOf(n.history[Len(n.history)])
    /\ \A k \in 1..Len(n.history) :
         n.history[k].step = k /\ (n.history[k].action = "offer" <=> k = 1)

\* a validated snapshot has a history of three steps
C37_Witness ==
  \E i \in 1..Len(ledger) :
    /\ ledger[i].tx.memos # <<>>
    /\ ledger[i].tx.memos[1].format = "xag:negotiation"
    /\ Len(ledger[i].tx.memos[1].data.obj.history) = 3
    /\ ledger[i].tx.memos[1].data.obj.status = "accepted"

\* the successful DIDSet transactions of updateProfile for the account, oldest first
Published(address) ==
  SelectSeq(ledger, LAMBDA e : /\ e.tx.type = "DIDSet" /\ e.tx.account = address
                               /\ e.result = "tesSUCCESS" /\ e.tx.fulfillment \in ProfileNames)

\* the profile data of the account's most recent publication
LatestPublished(address) ==
  LET tx == Published(address)[Len(Published(address))].tx
  IN  ProfileData(Profiles[tx.fulfillment], tx.finishAfter)

\* this step is a getProfile of an account that the ledger answers
ReadsProfile == calls'.reads # calls.reads /\ last'.op = "getProfile" /\ last'.args.online

\* C39: getProfile returns the most recently published profile of the account, and
\* null when the account never published one or the ledger fails.
C39_LatestProfileWins ==
  [][/\ (ReadsProfile /\ last'.args.agentAddress \in Addr) =>
          /\ last'.ok
          /\ Published(last'.args.agentAddress) # <<>> =>
               last'.result = <<LatestPublished(last'.args.agentAddress)>>
          /\ Published(last'.args.agentAddress) = <<>> => last'.result = <<>>
     /\ (calls'.reads # calls.reads /\ last'.op = "getProfile" /\ ~last'.args.online) =>
          last'.ok /\ last'.result = <<>>]_vars

\* the account's DID object is the one its most recent publication wrote
ProfileStands(address) ==
  /\ Published(address) # <<>>
  /\ DidObjects(address)[1].URI = ProfileURI
  /\ DidObjects(address)[1].Data = JSONStringify(LatestPublished(address))

\* getProfile returns the most recently published profile as long as no later
\* registration replaced the DID object
C39_WinsWhileStanding ==
  [][(ReadsProfile /\ last'.args.agentAddress \in Addr) =>
       /\ last'.ok
       /\ ProfileStands(last'.args.agentAddress) =>
            last'.result = <<LatestPublished(last'.args.agentAddress)>>
       /\ Published(last'.args.agentAddress) = <<>> => last'.result = <<>>]_vars

\* this step is a verifyAgent that returned
Verifies == calls'.reads # calls.reads /\ last'.op = "verifyAgent" /\ last'.ok

\* the profile and the reputation the ledger holds for the agent a verifyAgent named
ProfileOf(did) == getProfile(resolveDID(did).val, TRUE).result
ScoreOf(did) == getReputation(did).result[1].score

\* every requirement of requirements is met by the agent
Meets(did, requirements) ==
  /\ ScoreOf(did) >= requirements.minReputation
  /\ requirements.requireProfile => ProfileOf(did) # <<>>
  /\ "requiredCapabilities" \in DOMAIN requirements =>
       /\ ProfileOf(did) # <<>>
       /\ HasAll(requirements.requiredCapabilities, ProfileOf(did)[1].capabilities)

\* C38: verifyAgent gives verified = true only with a score of at least 50 and every
\* requirement met; the score is one of 0, 25, 50, 75, 100; a check whose request fails
\* gives a false claim and the call still returns.
C38_VerifiedMeetsRequirements ==
  [][/\ Verifies =>
          /\ last'.result[1].score \in {0, 25, 50, 75, 100}
          /\ last'.result[1].verified =>
               /\ last'.result[1].score >= 50
               /\ Meets(last'.args.agentDID, last'.args.requirements)
          /\ \A check \in last'.args.down : ~last'.result[1].claims[check]
     /\ (calls'.reads # calls.reads /\ last'.op = "verifyAgent"
           /\ resolveDID(last'.args.agentDID).ok) => last'.ok]_vars

\* the requirements that enter verified: reputation and the existence of a profile
MeetsChecked(did, requirements) ==
  /\ ScoreOf(did) >= requirements.minReputation
  /\ requirements.requireProfile => ProfileOf(did) # <<>>

\* the same without the required capabilities
C38_VerifiedMeetsChecked ==
  [][/\ Verifies =>
          /\ last'.result[1].score \in {0, 25, 50, 75, 100}
          /\ last'.result[1].verified =>
               /\ last'.result[1].score >= 50
               /\ MeetsChecked(last'.args.agentDID, last'.args.requirements)
          /\ \A check \in last'.args.down : ~last'.result[1].claims[check]
     /\ (calls'.reads # calls.reads /\ last'.op = "verifyAgent"
           /\ resolveDID(last'.args.agentDID).ok) => last'.ok]_vars

\* this step is a read operation returning
IsRead == "reads" \in DOMAIN calls /\ calls'.reads # calls.reads

\* the read operation of the completed invocation c, made again at time clock
Again(c, clock) ==
  CASE c.op = "getLogs" -> getLogs(c.args.agentDID, c.args.limit, clock)
    [] c.op = "searchIntents" -> searchIntents(c.args)
    [] c.op = "getNegotiation" -> getNegotiation(c.args.negotiationId, c.args.participantDID)
    [] c.op = "getReputation" -> getReputation(c.args.did)
    [] c.op = "getProfile" -> getProfile(c.args.agentAddress, c.args.online)
    [] c.op = "verifyAgent" -> verifyAgent(c.args.agentDID, c.args.requirements, c.args.down)
    [] OTHER -> [ok |-> c.ok, err |-> c.err, result |-> c.result]

SameOutcome(c, r) == c.ok = r.ok /\ c.err = r.err /\ c.result = r.result

\* C40: a read operation submits nothing and leaves the ledger as it is, and the same
\* read made again later over the unchanged history returns the same result.
C40_ReadsRepeat ==
  [][IsRead => /\ UNCHANGED <<ledgerVars, proc>>
               /\ \A clock \in {now, now + 1} : SameOutcome(last', Again(last', clock))]_vars

\* every log entry in the history of the account carries its timestamp
Stamped(agentDID) ==
  \A e \in Range(AccountTx(resolveDID(agentDID).val, DefaultLogLimit)) :
    \A i \in 1..Len(e.tx.memos) :
      LET parsed == JSONParse(e.tx.memos[i].data)
      IN  (parsed.ok /\ ~parsed.isNull /\ IsLogEntry(parsed.obj)) =>
            "timestamp" \in DOMAIN parsed.obj

\* a read leaves the ledger as it is, and repeats with the same result unless it is a
\* getLogs over a history holding a log entry without timestamp
C40_ReadsLeaveLedger ==
  [][IsRead => /\ UNCHANGED <<ledgerVars, proc>>
               /\ (last'.op = "getLogs" => Stamped(last'.args.agentDID)) =>
                    \A clock \in {now, now + 1} : SameOutcome(last', Again(last', clock))]_vars
====
